---- MODULE Spec2Model ----
(***************************************************************************)
(* State-machine model of the YouTube assistant back end:                  *)
(*   app.py            request handlers, progress tracker, chunked job     *)
(*   qa_system.py      ask_question and its two-level answer cache         *)
(*   transcription.py  transcribe_segments (merge of segment fragments)    *)
(*                                                                         *)
(* Scheduling.  Every handler of app.py is an `async def` whose only await *)
(* is the read of the request body, and process_long_video is an `async    *)
(* def` with no await at all: FastAPI awaits it on the event loop after    *)
(* the response has been sent.  A handler is therefore one atomic action,  *)
(* and a chunked job, once started, runs to its end before any other       *)
(* handler runs (variable `running`).  Other handlers can run only between *)
(* the return of process and the start of its background job.              *)
(***************************************************************************)
EXTENDS Integers, Sequences, FiniteSets, TLC

\* ------------------------------------------------------------------ bounds
MaxRequests == 2
MaxAsks == 2
MaxSegs == 3

\* ------------------------------------------------------ program constants
LongThreshold == 1800
ChunkDefault == 1200
ChunkLarge == 1800
VeryLong == 7200
HistoryCap == 10

\* ------------------------------------------------------------ input sets
Sources == {"v1", "v2"}
Clients == {"b1"}
JobIds == 1..(MaxRequests)

\* None of Python, for integer-valued and for string-valued places
None == -1
NoneStr == "None"

\* ------------------------------------------------------------------ state
VARIABLES
  progress_status,         \* app.py progress_status (process-wide tracker)
  record,                  \* data/videos/{video_id}.json
  transcript,              \* data/transcripts/{video_id}.txt
  audio,                   \* data/audio/{video_id}.mp3 exists
  collection,              \* ChromaDB collection youtube_transcript_{video_id}
  cacheFile,               \* data/cache/{video_id}.json
  segCacheFile,            \* data/cache/{video_id}_segments.json
  memory_cache,            \* qa_system._memory_cache
  conversation_histories,  \* app.py conversation_histories
  cookie,                  \* session["session_id"] of each browser session
  jobs,                    \* background tasks process_long_video, with locals
  running,                 \* the job that occupies the event loop, 0 if none
  nReq,                    \* number of process requests received
  nAsk,                    \* number of question requests received
  asked,                   \* per source: the answers given since its last clean-up
  runNo,                   \* per source: number of process requests so far
  last,                    \* what the last handler returned and did
  tr,                      \* transcribe_segments: inputs, loop state, result
  seg,                     \* extract_transcript_segment: arguments and result
  split,                   \* split_audio: arguments, locals and result
  scratch,                 \* per source: audio pieces under data/segments and data/temp
  lib                      \* one call of a rag_pipeline / qa_system function: arguments, locals, result

vars == <<progress_status, record, transcript, audio, collection, cacheFile, segCacheFile,
          memory_cache, conversation_histories, cookie, jobs, running, nReq, nAsk, runNo,
          asked, last, tr, seg, split, scratch, lib>>

\* ---------------------------------------------------------------- helpers
Max(a, b) == IF a >= b THEN a ELSE b

\* int((completed / total) * 100) of update_progress, total > 0
PyPct(completed, total) == (completed * 100) \div total

\* max(1, int(d / L) + (1 if d % L > 0 else 0))
ChunkCountFloor(d, L) == Max(1, d \div L)

ChunkCount(d, L) == Max(1, (d \div L) + (IF d % L > 0 THEN 1 ELSE 0))

\* chunk_duration of process_long_video
ChunkDuration(d) == IF d > VeryLong THEN ChunkLarge ELSE ChunkDefault


\* ------------------------------------------------- progress tracker (app.py)
\* update_progress: a parameter None (NoneStr, FALSE for started_at) is "not passed".
\* The message is not modelled.
update_progress(ps, percentage, video_id, processing_type, chunks_total, chunks_completed, started_at) ==
  LET p1 == IF percentage # None THEN [ps EXCEPT !.percentage = percentage] ELSE ps
      p2 == IF video_id # NoneStr THEN [p1 EXCEPT !.video_id = video_id] ELSE p1
      p3 == IF processing_type # NoneStr THEN [p2 EXCEPT !.processing_type = processing_type] ELSE p2
      p4 == IF chunks_total # None THEN [p3 EXCEPT !.chunks_total = chunks_total] ELSE p3
      p5 == IF chunks_completed # None
              THEN LET q == [p4 EXCEPT !.chunks_completed = chunks_completed]
                   IN  IF chunks_total # None /\ chunks_total # 0 /\ chunks_completed <= chunks_total
                         THEN [q EXCEPT !.percentage = PyPct(chunks_completed, chunks_total)]
                         ELSE q
              ELSE p4
      p6 == IF started_at THEN [p5 EXCEPT !.started_at = TRUE] ELSE p5
  IN  IF p6.started_at /\ p6.chunks_completed > 0 /\ p6.chunks_total > 0
        THEN [p6 EXCEPT !.estimated_time_remaining = TRUE]
        ELSE p6

InitProgress ==
  [percentage |-> 0, video_id |-> NoneStr, processing_type |-> "standard",
   chunks_total |-> 0, chunks_completed |-> 0,
   estimated_time_remaining |-> FALSE, started_at |-> FALSE]

\* ------------------------------------------------------- persisted objects
NoRecord ==
  [exists |-> FALSE, is_long_video |-> FALSE, duration |-> 0, chunks_total |-> 0,
   chunks_completed |-> 0, processing_status |-> "absent", error_message |-> FALSE,
   language |-> NoneStr]

NoTranscript == [exists |-> FALSE, run |-> 0, chunks |-> <<>>]

NoCollection == [exists |-> FALSE, runs |-> {}]

NoFile == [exists |-> FALSE, data |-> {}]

NoJob ==
  [pc |-> "none", vid |-> NoneStr, run |-> 0, language |-> NoneStr, duration |-> 0,
   chunk_duration |-> 0, total_chunks |-> 0, actual_duration |-> 0, chunk_idx |-> 0,
   all_transcripts |-> <<>>, statuses |-> <<>>, tcLast |-> None, rcLast |-> None,
   pctLast |-> None, visited |-> {}, failed |-> {}, wroteTranscript |-> FALSE,
   wroteCollection |-> FALSE, ranges |-> <<>>]

\* an answer text: kind "llm" for a model reply, the other kinds are the fixed messages;
\* run is the processing run whose transcript it was made from; prefix: the time prefix
NoAns == [kind |-> "none", txt |-> "", run |-> 0, prefix |-> FALSE]

\* what the last handler returned (status, answer, cached) and did: llm, a chat completion
\* was requested; fup, the question was handled as a follow-up; hit, an entry of a cache
\* was returned; wr, an entry was written to a cache; window, a time window was given;
\* expected, the answer `asked` held for the same question, language and mode;
\* chunks, <<chunks_total, chunks_completed>> of a status reply; message, the reply
\* carries an error message
NoLast ==
  [op |-> "none", vid |-> NoneStr, status |-> "none", answer |-> NoAns,
   cached |-> "absent", llm |-> FALSE, fup |-> FALSE, hit |-> FALSE, wr |-> FALSE,
   window |-> FALSE, expected |-> NoAns, chunks |-> <<None, None>>, message |-> FALSE,
   req |-> <<None, FALSE>>]

\* session ids f"{video_id}_{int(time.time())}": one per (video, browser session)
SessionIds == {<<v, b>> : v \in Sources, b \in Clients}
NoSession == <<NoneStr, NoneStr>>

\* clean_video_data(video_id): transcript, question cache, audio, collection and the
\* conversation histories whose session id starts with the video id.  The time-window
\* cache {video_id}_segments.json and qa_system._memory_cache are not touched.
CleanTranscript(t, v) == [t EXCEPT ![v] = NoTranscript]
CleanCache(c, v) == [c EXCEPT ![v] = NoFile]
CleanAudio(a, v) == [a EXCEPT ![v] = FALSE]
CleanCollection(c, v) == [c EXCEPT ![v] = NoCollection]
\* a history: the list kept in conversation_histories, and (log) every turn appended
\* to it since it was made
\* segments: data/segments/{video_id}/ holds segment files (direct mode);
\* chunk_files: the super-chunks i with a file data/temp/{video_id}_chunk_{i}.mp3;
\* chunk_segments: the super-chunks i with segment files in data/segments/{video_id}_chunk_{i}/
NoScratch == [segments |-> FALSE, chunk_files |-> {}, chunk_segments |-> {}]

NoHistory == [exists |-> FALSE, turns |-> <<>>, log |-> <<>>, about |-> <<>>]

\* lines 149-154: the files of data/temp named {video_id}_...; data/segments is not visited
CleanScratch(s, v) == [s EXCEPT ![v].chunk_files = {}]

CleanHistories(h, v) == [s \in SessionIds |-> IF s[1] = v THEN NoHistory ELSE h[s]]

\* How a run of clean_video_data ends.  Its steps, in order: transcript, cache, audio,
\* temporary files, collection, histories.  An exception in a file step ends the run
\* (outer except, return False); an exception of delete_collection is caught on the
\* spot and the run goes on.  The callers ignore the result (process) or answer 500
\* after having removed the record (delete_video).
CleanOutcomes == {"ok", "transcript_error", "temp_error", "chroma_error"}

Cleans(c, what) ==
  CASE c = "ok" -> TRUE
    [] c = "chroma_error" -> what # "collection"
    [] c = "temp_error" -> what \in {"transcript", "cache", "audio"}
    [] OTHER -> FALSE

Cleaned(c, what, cleaned, old) == IF Cleans(c, what) THEN cleaned ELSE old

\* the document set split_text / embed_and_store would add for a transcript text:
\* split_text("") is [], and embed_and_store([]) returns without touching the store
StoreChunks(c, v, run, chunks) ==
  IF chunks = <<>> THEN c
  ELSE [c EXCEPT ![v] = [exists |-> TRUE, runs |-> c[v].runs \cup {run}]]


\* ---------------------------------------------------- POST /videos/process
\* What a handler other than ask reports in `last`.
Reply(op, v, status) == [NoLast EXCEPT !.op = op, !.vid = v, !.status = status]

\* a background task that has returned keeps no locals: its slot reads "ended"
Released(js) ==
  [j \in JobIds |-> IF js[j].pc \in {"done", "error"} THEN [NoJob EXCEPT !.pc = "ended"] ELSE js[j]]

\* lines 369-390: reset progress, clean_video_data, "Getting video information..."
ProcessBegin(v, c) ==
  /\ runNo' = [runNo EXCEPT ![v] = @ + 1]
  /\ nReq' = nReq + 1
  /\ cacheFile' = Cleaned(c, "cache", CleanCache(cacheFile, v), cacheFile)
  /\ conversation_histories' =
        Cleaned(c, "histories", CleanHistories(conversation_histories, v), conversation_histories)
  /\ asked' = [asked EXCEPT ![v] = {}]
  /\ UNCHANGED <<segCacheFile, memory_cache, cookie, nAsk, running, tr, seg, split, lib>>

ProgressAfterInfo(v) ==
  update_progress(update_progress(progress_status, 0, v, NoneStr, None, None, TRUE),
                  10, v, NoneStr, None, None, FALSE)

\* info["duration"] is None (yt-dlp reports no duration): `None > 1800` raises,
\* the handler answers 500 after the clean-up.
ProcessNoDuration(v, c) ==
  /\ running = 0 /\ nReq < MaxRequests
  /\ ProcessBegin(v, c)
  /\ progress_status' = ProgressAfterInfo(v)
  /\ transcript' = Cleaned(c, "transcript", CleanTranscript(transcript, v), transcript)
  /\ audio' = Cleaned(c, "audio", CleanAudio(audio, v), audio)
  /\ collection' = Cleaned(c, "collection", CleanCollection(collection, v), collection)
  /\ scratch' = Cleaned(c, "temp", CleanScratch(scratch, v), scratch)
  /\ last' = Reply("process", v, "http_500")
  /\ jobs' = Released(jobs)
  /\ UNCHANGED record

initial_video_info_complete(d, language) ==
  [exists |-> TRUE, is_long_video |-> TRUE, duration |-> d, chunks_total |-> 0,
   chunks_completed |-> 0, processing_status |-> "complete",
   error_message |-> FALSE, language |-> language]

\* lines 400-413: the record written before the background task is handed over
initial_video_info(d, language) ==
  [exists |-> TRUE, is_long_video |-> TRUE, duration |-> d, chunks_total |-> 0,
   chunks_completed |-> 0, processing_status |-> "initializing",
   error_message |-> FALSE, language |-> language]

\* lines 398-437: chunked mode, the initial record and the background task
ProcessChunked(v, d, force, language, c) ==
  /\ running = 0 /\ nReq < MaxRequests
  /\ d > LongThreshold \/ force
  /\ ProcessBegin(v, c)
  /\ progress_status' = ProgressAfterInfo(v)
  /\ transcript' = Cleaned(c, "transcript", CleanTranscript(transcript, v), transcript)
  /\ audio' = Cleaned(c, "audio", CleanAudio(audio, v), audio)
  /\ collection' = Cleaned(c, "collection", CleanCollection(collection, v), collection)
  /\ scratch' = Cleaned(c, "temp", CleanScratch(scratch, v), scratch)
  /\ record' = [record EXCEPT ![v] = initial_video_info(d, language)]
  /\ jobs' = [Released(jobs) EXCEPT ![nReq + 1] =
        [NoJob EXCEPT !.pc = "pending", !.vid = v, !.run = runNo[v] + 1, !.language = language,
                      !.duration = d, !.statuses = <<"initializing">>]]
  /\ last' = [Reply("process", v, "processing_started") EXCEPT !.req = <<d, force>>]

\* lines 439-524: direct mode, the whole pipeline inside the request.
\* outcome: where the pipeline stops ("download", "split", "transcribe"), "ok", or
\* "nosave": save_to_file fails (it logs and returns False) and the pipeline goes on.
ProcessDirect(v, d, force, language, outcome, c) ==
  /\ running = 0 /\ nReq < MaxRequests
  /\ ~(d > LongThreshold \/ force)
  /\ ProcessBegin(v, c)
  /\ LET pct == CASE outcome = "download" -> 25
                  [] outcome = "split" -> 40
                  [] outcome = "transcribe" -> 60
                  [] OTHER -> 100
     IN  progress_status' = update_progress(ProgressAfterInfo(v), pct, v, NoneStr, None, None, FALSE)
  /\ audio' = IF outcome # "download" THEN [audio EXCEPT ![v] = TRUE]
               ELSE Cleaned(c, "audio", CleanAudio(audio, v), audio)
  /\ transcript' = IF outcome = "ok"
                     THEN [transcript EXCEPT ![v] =
                             [exists |-> TRUE, run |-> runNo[v] + 1,
                              chunks |-> <<[i |-> 0, txt |-> "T"]>>]]
                     ELSE Cleaned(c, "transcript", CleanTranscript(transcript, v), transcript)
  /\ collection' =
        LET cleaned == Cleaned(c, "collection", CleanCollection(collection, v), collection)
        IN  IF outcome \in {"ok", "nosave"}
              THEN StoreChunks(cleaned, v, runNo[v] + 1, <<[i |-> 0, txt |-> "T"]>>)
              ELSE cleaned
  /\ record' = IF outcome \in {"ok", "nosave"}
                 THEN [record EXCEPT ![v] =
                         [NoRecord EXCEPT !.exists = TRUE, !.duration = d,
                                          !.language = IF language = NoneStr THEN "en" ELSE language]]
                 ELSE record
  /\ scratch' =
        LET cleaned == Cleaned(c, "temp", CleanScratch(scratch, v), scratch)
        IN  IF outcome \in {"transcribe", "ok", "nosave"}
              THEN [cleaned EXCEPT ![v].segments = TRUE]
              ELSE cleaned
  /\ last' = [Reply("process", v, IF outcome \in {"ok", "nosave"} THEN "ok" ELSE "http_500") EXCEPT
                !.req = <<d, force>>]
  /\ jobs' = Released(jobs)

\* ------------------------------------------------------ DELETE /videos/{id}
delete_video(v, c) ==
  /\ running = 0
  /\ IF record[v].exists
       THEN /\ record' = [record EXCEPT ![v] = NoRecord]
            /\ transcript' = Cleaned(c, "transcript", CleanTranscript(transcript, v), transcript)
            /\ audio' = Cleaned(c, "audio", CleanAudio(audio, v), audio)
            /\ collection' = Cleaned(c, "collection", CleanCollection(collection, v), collection)
            /\ cacheFile' = Cleaned(c, "cache", CleanCache(cacheFile, v), cacheFile)
            /\ conversation_histories' =
                  Cleaned(c, "histories", CleanHistories(conversation_histories, v),
                          conversation_histories)
            /\ asked' = [asked EXCEPT ![v] = {}]
            /\ scratch' = Cleaned(c, "temp", CleanScratch(scratch, v), scratch)
            /\ last' = Reply("delete", v, IF c \in {"ok", "chroma_error"} THEN "success" ELSE "http_500")
       ELSE /\ last' = Reply("delete", v, "http_404")
            /\ UNCHANGED <<record, transcript, audio, collection, cacheFile, conversation_histories,
                           asked, scratch>>
  /\ UNCHANGED <<progress_status, segCacheFile, memory_cache, cookie, jobs, running, nReq, nAsk, runNo, tr, seg, split, lib>>


\* ------------------------------------------------ GET /videos/{id}/status
\* The tracker itself is the reply while it names the source (it has no "status" and
\* no error message); otherwise the reply is made from the record, whose
\* error_message is not copied; a record without processing_status (direct mode)
\* reads "complete" when its transcript file exists.
get_video_status(v) ==
  /\ running = 0
  /\ last' = IF progress_status.video_id = v
               THEN [Reply("status", v, NoneStr) EXCEPT
                       !.chunks = <<progress_status.chunks_total, progress_status.chunks_completed>>]
             ELSE IF record[v].exists
               THEN [Reply("status", v,
                           IF record[v].processing_status # "absent" THEN record[v].processing_status
                           ELSE IF transcript[v].exists THEN "complete" ELSE "unknown") EXCEPT
                       !.chunks = <<record[v].chunks_total, record[v].chunks_completed>>]
             ELSE Reply("status", v, "not_found")
  /\ UNCHANGED <<progress_status, record, transcript, audio, collection, cacheFile, segCacheFile,
                 memory_cache, conversation_histories, cookie, jobs, running, nReq, nAsk, runNo,
                 asked, tr, seg, split, scratch, lib>>

\* ------------------------------------------- process_long_video (app.py 857)
\* One action per tracker update, record write or external call, in source order.
\* job.pc is the position; job.statuses, tcLast, rcLast, pctLast, visited, failed,
\* wroteTranscript and wroteCollection only record what the job has written.
JobRest == UNCHANGED <<cacheFile, segCacheFile, memory_cache, conversation_histories,
                       cookie, nReq, nAsk, runNo, asked, last, tr, seg, split, lib>>

JobUnchanged == JobRest /\ UNCHANGED scratch

At(j, pc) == jobs[j].pc = pc /\ (running = j \/ (pc = "pending" /\ running = 0))

\* the tracker update a job makes, with what it wrote remembered in the job
Track(j, job, ps) ==
  /\ progress_status' = ps
  /\ jobs' = [jobs EXCEPT ![j] = [job EXCEPT !.tcLast = ps.chunks_completed,
                                             !.pctLast = ps.percentage]]

\* JobFatal that records the status without the error message: the sensitivity check of C9
JobFatalNoMessage(j, job) ==
  /\ running' = 0
  /\ IF record[job.vid].exists
       THEN /\ record' = [record EXCEPT ![job.vid].processing_status = "error"]
            /\ jobs' = [jobs EXCEPT ![j] = [job EXCEPT !.pc = "error",
                                                       !.statuses = Append(@, "error")]]
       ELSE /\ record' = record
            /\ jobs' = [jobs EXCEPT ![j] = [job EXCEPT !.pc = "error"]]

\* lines 1066-1083: the handler of a fatal error
JobFatal(j, job) ==
  /\ running' = 0
  /\ IF record[job.vid].exists
       THEN /\ record' = [record EXCEPT ![job.vid].processing_status = "error",
                                        ![job.vid].error_message = TRUE]
            /\ jobs' = [jobs EXCEPT ![j] = [job EXCEPT !.pc = "error",
                                                       !.statuses = Append(@, "error")]]
       ELSE /\ record' = record
            /\ jobs' = [jobs EXCEPT ![j] = [job EXCEPT !.pc = "error"]]

\* JobStart without `chunks_completed=0` in its tracker update: the sensitivity check of C4
JobStartKeepsCompleted(j) ==
  /\ At(j, "pending")
  /\ running' = j
  /\ LET d == jobs[j].duration
         L == ChunkDuration(d)
         n == ChunkCount(d, L)
         job == [jobs[j] EXCEPT !.pc = "record_downloading", !.chunk_duration = L, !.total_chunks = n]
         ps == update_progress(progress_status, 5, job.vid, "chunked", n, None, FALSE)
     IN  /\ progress_status' = ps
         /\ jobs' = [Released(jobs) EXCEPT ![j] = [job EXCEPT !.tcLast = ps.chunks_completed,
                                                              !.pctLast = ps.percentage]]
  /\ UNCHANGED <<record, transcript, audio, collection>>
  /\ JobUnchanged

\* lines 859-880
JobStart(j) ==
  /\ At(j, "pending")
  /\ running' = j
  /\ LET d == jobs[j].duration
         L == ChunkDuration(d)
         n == ChunkCount(d, L)
         job == [jobs[j] EXCEPT !.pc = "record_downloading", !.chunk_duration = L, !.total_chunks = n]
         ps == update_progress(progress_status, 5, job.vid, "chunked", n, 0, FALSE)
     IN  /\ progress_status' = ps
         /\ jobs' = [Released(jobs) EXCEPT ![j] = [job EXCEPT !.tcLast = ps.chunks_completed,
                                                              !.pctLast = ps.percentage]]
  /\ UNCHANGED <<record, transcript, audio, collection>>
  /\ JobUnchanged

\* lines 882-892; the record is gone when the video was deleted meanwhile
JobRecordDownloading(j) ==
  /\ At(j, "record_downloading")
  /\ LET job == jobs[j]
     IN  IF record[job.vid].exists
           THEN /\ record' = [record EXCEPT ![job.vid].chunks_total = job.total_chunks,
                                            ![job.vid].chunks_completed = 0,
                                            ![job.vid].processing_status = "downloading"]
                /\ jobs' = [jobs EXCEPT ![j] = [job EXCEPT !.pc = "progress_downloading", !.rcLast = 0,
                                                           !.statuses = Append(@, "downloading")]]
                /\ UNCHANGED running
           ELSE JobFatal(j, job)
  /\ UNCHANGED <<progress_status, transcript, audio, collection>>
  /\ JobUnchanged

\* line 896
JobProgressDownloading(j) ==
  /\ At(j, "progress_downloading")
  /\ LET job == [jobs[j] EXCEPT !.pc = "download"]
     IN  Track(j, job, update_progress(progress_status, 10, job.vid, NoneStr, job.total_chunks, None, FALSE))
  /\ UNCHANGED <<record, transcript, audio, collection, running>>
  /\ JobUnchanged

\* lines 898-900
JobDownloadOk(j) ==
  /\ At(j, "download")
  /\ audio' = [audio EXCEPT ![jobs[j].vid] = TRUE]
  /\ jobs' = [jobs EXCEPT ![j].pc = "probe"]
  /\ UNCHANGED <<progress_status, record, transcript, collection, running>>
  /\ JobUnchanged

JobDownloadFail(j) ==
  /\ At(j, "download")
  /\ JobFatal(j, jobs[j])
  /\ UNCHANGED <<progress_status, transcript, audio, collection>>
  /\ JobUnchanged

\* lines 902-914: a is what get_audio_duration returns (0 when ffprobe fails)
JobProbe(j, a) ==
  /\ At(j, "probe")
  /\ IF a > 0
       THEN LET n == ChunkCount(a, jobs[j].chunk_duration)
                job == [jobs[j] EXCEPT !.pc = "record_transcribing", !.actual_duration = a,
                                       !.total_chunks = n]
            IN  Track(j, job, update_progress(progress_status, 15, job.vid, NoneStr, n, None, FALSE))
       ELSE /\ jobs' = [jobs EXCEPT ![j] = [@ EXCEPT !.pc = "loop", !.actual_duration = a]]
            /\ UNCHANGED progress_status
  /\ UNCHANGED <<record, transcript, audio, collection, running>>
  /\ JobUnchanged

\* lines 916-925
JobRecordTranscribing(j) ==
  /\ At(j, "record_transcribing")
  /\ LET job == jobs[j]
     IN  /\ record' = [record EXCEPT ![job.vid].chunks_total = job.total_chunks,
                                     ![job.vid].duration = job.actual_duration,
                                     ![job.vid].processing_status = "transcribing"]
         /\ jobs' = [jobs EXCEPT ![j] = [job EXCEPT !.pc = "loop",
                                                    !.statuses = Append(@, "transcribing")]]
  /\ UNCHANGED <<progress_status, transcript, audio, collection, running>>
  /\ JobUnchanged

\* lines 931-932: <<chunk_start, chunk_end>> of super-chunk idx
ChunkRange(idx, chunk_duration, actual_duration) ==
  <<idx * chunk_duration,
    IF (idx + 1) * chunk_duration <= actual_duration THEN (idx + 1) * chunk_duration
    ELSE actual_duration>>

\* JobChunkBegin that passes chunks_total, so that update_progress derives the
\* percentage from the chunk counts: the sensitivity check of C6
JobChunkBeginDerived(j) ==
  /\ At(j, "loop")
  /\ jobs[j].chunk_idx < jobs[j].total_chunks
  /\ LET job == [jobs[j] EXCEPT !.pc = "chunk", !.visited = @ \cup {jobs[j].chunk_idx},
                                !.ranges = Append(@, ChunkRange(jobs[j].chunk_idx, jobs[j].chunk_duration,
                                                                jobs[j].actual_duration))]
     IN  Track(j, job, update_progress(progress_status, None, job.vid, NoneStr, job.total_chunks,
                                       job.chunk_idx, FALSE))
  /\ UNCHANGED <<record, transcript, audio, collection, running>>
  /\ JobUnchanged

\* lines 930-939: the head of one iteration of the super-chunk loop
JobChunkBegin(j) ==
  /\ At(j, "loop")
  /\ jobs[j].chunk_idx < jobs[j].total_chunks
  /\ LET job == [jobs[j] EXCEPT !.pc = "chunk", !.visited = @ \cup {jobs[j].chunk_idx},
                                !.ranges = Append(@, ChunkRange(jobs[j].chunk_idx, jobs[j].chunk_duration,
                                                                jobs[j].actual_duration))]
     IN  Track(j, job, update_progress(progress_status, None, job.vid, NoneStr, None, job.chunk_idx, FALSE))
  /\ UNCHANGED <<record, transcript, audio, collection, running>>
  /\ JobUnchanged

\* JobChunkFail without the inner try/except, the failure reaching the outer handler:
\* the sensitivity check of C8
JobChunkFailAborts(j) ==
  /\ At(j, "chunk")
  /\ JobFatal(j, [jobs[j] EXCEPT !.failed = @ \cup {jobs[j].chunk_idx}])
  /\ UNCHANGED <<progress_status, transcript, audio, collection>>
  /\ JobUnchanged

\* lines 944-957 raise (ffmpeg, no super-chunk file written), 1001-1003 catch
JobChunkFail(j) ==
  /\ At(j, "chunk")
  /\ jobs' = [jobs EXCEPT ![j] = [@ EXCEPT !.pc = "loop", !.chunk_idx = @ + 1,
                                           !.failed = @ \cup {jobs[j].chunk_idx}]]
  /\ UNCHANGED <<progress_status, record, transcript, audio, collection, running>>
  /\ JobUnchanged

\* lines 944-957 raise after ffmpeg has created the super-chunk file, or 959-965 raise
\* (split_audio, transcribe_segments): the removals of lines 995-999 are not reached
JobChunkFailLate(j) ==
  /\ At(j, "chunk")
  /\ jobs' = [jobs EXCEPT ![j] = [@ EXCEPT !.pc = "loop", !.chunk_idx = @ + 1,
                                           !.failed = @ \cup {jobs[j].chunk_idx}]]
  /\ scratch' = [scratch EXCEPT ![jobs[j].vid].chunk_files = @ \cup {jobs[j].chunk_idx}]
  /\ UNCHANGED <<progress_status, record, transcript, audio, collection, running>>
  /\ JobRest

\* lines 944-984: txt is the chunk transcript, "" when every segment of it failed
JobChunkDone(j, txt) ==
  /\ At(j, "chunk")
  /\ LET job == [jobs[j] EXCEPT !.pc = "record_chunk",
                                !.all_transcripts = Append(@, [i |-> jobs[j].chunk_idx, txt |-> txt])]
     IN  /\ Track(j, job, update_progress(progress_status, None, job.vid, NoneStr, None,
                                          job.chunk_idx + 1, FALSE))
         /\ scratch' = [scratch EXCEPT ![job.vid].chunk_files = @ \cup {job.chunk_idx},
                                       ![job.vid].chunk_segments = @ \cup {job.chunk_idx}]
  /\ UNCHANGED <<record, transcript, audio, collection, running>>
  /\ JobRest

\* lines 986-999: the record, then the removal of the super-chunk file and its segments
JobRecordChunk(j) ==
  /\ At(j, "record_chunk")
  /\ LET job == jobs[j]
     IN  /\ record' = [record EXCEPT ![job.vid].chunks_completed = job.chunk_idx + 1]
         /\ jobs' = [jobs EXCEPT ![j] = [job EXCEPT !.pc = "loop", !.chunk_idx = @ + 1,
                                                    !.rcLast = job.chunk_idx + 1]]
         /\ scratch' = [scratch EXCEPT ![job.vid].chunk_files = @ \ {job.chunk_idx},
                                       ![job.vid].chunk_segments = @ \ {job.chunk_idx}]
  /\ UNCHANGED <<progress_status, transcript, audio, collection, running>>
  /\ JobRest

\* lines 1005-1013
JobSaveTranscript(j) ==
  /\ At(j, "loop")
  /\ jobs[j].chunk_idx >= jobs[j].total_chunks
  /\ LET job == jobs[j]
     IN  /\ transcript' = [transcript EXCEPT ![job.vid] =
               [exists |-> TRUE, run |-> job.run, chunks |-> job.all_transcripts]]
         /\ jobs' = [jobs EXCEPT ![j] = [job EXCEPT !.pc = "progress_indexing", !.wroteTranscript = TRUE]]
  /\ UNCHANGED <<progress_status, record, audio, collection, running>>
  /\ JobUnchanged

\* lines 1005-1013 when save_to_file fails: it logs, returns False, and the job goes on
JobSaveTranscriptFail(j) ==
  /\ At(j, "loop")
  /\ jobs[j].chunk_idx >= jobs[j].total_chunks
  /\ jobs' = [jobs EXCEPT ![j].pc = "progress_indexing"]
  /\ UNCHANGED <<progress_status, record, transcript, audio, collection, running>>
  /\ JobUnchanged

\* JobProgressIndexing that reports the number of chunks transcribed instead of
\* total_chunks: the sensitivity check of C5
JobProgressIndexingCount(j) ==
  /\ At(j, "progress_indexing")
  /\ LET job == [jobs[j] EXCEPT !.pc = "index"]
     IN  Track(j, job, update_progress(progress_status, 90, job.vid, NoneStr, None,
                                       Len(job.all_transcripts), FALSE))
  /\ UNCHANGED <<record, transcript, audio, collection, running>>
  /\ JobUnchanged

\* lines 1015-1021
JobProgressIndexing(j) ==
  /\ At(j, "progress_indexing")
  /\ LET job == [jobs[j] EXCEPT !.pc = "index"]
     IN  Track(j, job, update_progress(progress_status, 90, job.vid, NoneStr, None, job.total_chunks, FALSE))
  /\ UNCHANGED <<record, transcript, audio, collection, running>>
  /\ JobUnchanged

\* lines 1023-1026
JobIndex(j) ==
  /\ At(j, "index")
  /\ LET job == jobs[j]
     IN  /\ collection' = StoreChunks(collection, job.vid, job.run, job.all_transcripts)
         /\ jobs' = [jobs EXCEPT ![j] = [job EXCEPT !.pc = "record_final",
                                                    !.wroteCollection = (job.all_transcripts # <<>>)]]
  /\ UNCHANGED <<progress_status, record, transcript, audio, running>>
  /\ JobUnchanged

\* lines 1028-1055: the final record replaces the file
JobRecordFinal(j) ==
  /\ At(j, "record_final")
  /\ LET job == jobs[j]
     IN  /\ record' = [record EXCEPT ![job.vid] =
               [exists |-> TRUE, is_long_video |-> TRUE, duration |-> job.actual_duration,
                chunks_total |-> job.total_chunks, chunks_completed |-> job.total_chunks,
                processing_status |-> "complete", error_message |-> FALSE,
                language |-> IF job.language = NoneStr THEN "en" ELSE job.language]]
         /\ jobs' = [jobs EXCEPT ![j] = [job EXCEPT !.pc = "progress_done", !.rcLast = job.total_chunks,
                                                    !.statuses = Append(@, "complete")]]
  /\ UNCHANGED <<progress_status, transcript, audio, collection, running>>
  /\ JobUnchanged

\* lines 1057-1064
JobProgressDone(j) ==
  /\ At(j, "progress_done")
  /\ running' = 0
  /\ LET job == [jobs[j] EXCEPT !.pc = "done"]
     IN  Track(j, job, update_progress(progress_status, 100, job.vid, NoneStr, None, job.total_chunks, FALSE))
  /\ UNCHANGED <<record, transcript, audio, collection>>
  /\ JobUnchanged


\* ------------------------------------------------ questions, keys and answers
\* The questions stand for the classes the detectors separate; a window is
\* <<start_time, end_time>> of the request; the flag is the request's is_followup.
Questions == {"Who is the speaker?", "Why?", "hello", "recap"}
Languages == {"en", "ar"}
Flags == {"None", "True", "False"}
NoWindow == <<None, None>>
Windows == {<<0, 120>>}

\* what the chat completion returns: a reply, an agent reply whose text ends at the
\* "Final Answer:" marker, a reply with a lower-case marker, or an exception
LLMOutcomes == {"A", "Thought. Final Answer:", "final answer: A", "raise"}

\* app.py 187 and qa_system.py 112 hold the same patterns: ^(why|when|where|how)\b ...
is_followup_question(q) == q = "Why?"

\* qa_system.py 44: "who is" and "recap" are video indicators, "hello" is casual,
\* a question with no indicator counts as related
is_video_related_question(q) == q # "hello"

\* qa_system.py 454
is_summary_request(q) == q = "recap"

\* re.sub(r'[^\w\s]', '', question.lower())
CleanQ(q) ==
  CASE q = "Who is the speaker?" -> "who is the speaker"
    [] q = "Why?" -> "why"
    [] OTHER -> q

PyStr(b) == IF b THEN "True" ELSE "False"

\* the three hashed strings; md5 is taken as injective on them
\* app.py 686: f"{clean_q}_{language}_{is_followup}"
EKey(q, language, is_followup) ==
  [t |-> "E", q |-> CleanQ(q), language |-> language, f |-> PyStr(is_followup), m |-> "", w |-> NoWindow]

\* qa_system.py 512-514: f"{clean_q}_{language}_{is_followup_str}_{use_agent}"
QKey(q, language, use_agent) ==
  [t |-> "Q", q |-> CleanQ(q), language |-> language,
   f |-> IF is_followup_question(q) THEN "followup" ELSE "direct", m |-> PyStr(use_agent), w |-> NoWindow]

\* app.py 611-613: f"{question}_{language}_{start_time_sec}_{end_time_sec}"
SKey(q, language, w) ==
  [t |-> "S", q |-> q, language |-> language, f |-> "", m |-> "", w |-> w]

\* a JSON object as the set of its entries [k, a]
HasKey(data, k) == \E e \in data : e.k = k
Lookup(data, k) == IF HasKey(data, k) THEN (CHOOSE e \in data : e.k = k).a ELSE NoAns
Put(data, k, a) == {e \in data : e.k # k} \cup {[k |-> k, a |-> a]}

\* Python truthiness of a cached value: None and "" are false
Truthy(a) == a.kind # "none" /\ (a.txt # "" \/ a.prefix)

\* qa_system.py 606-612: re.search(r'Final Answer:(.*?)(?:$|\n\n)', answer) and strip
ExtractFinal(content, use_agent) ==
  IF use_agent /\ content = "Thought. Final Answer:" THEN "" ELSE content

\* app.py 717-718: re.sub(r'(?i)^final\s+answer\s*:\s*', '', answer).strip()
StripFinal(a, language, use_agent) ==
  IF language = "ar" /\ use_agent /\ a.txt = "final answer: A" THEN [a EXCEPT !.txt = "A"] ELSE a

\* len(transcript.strip()) < 10: no chunk, or the single chunk "[00:00] " of a job
\* whose only chunk transcribed to nothing
TranscriptShort(t) == t.chunks = <<>> \/ (Len(t.chunks) = 1 /\ t.chunks[1].txt = "")

\* qa_system.py 177: memory first, then the file; a find in the file is copied to memory
get_cached_answer(key, mem, file) ==
  IF mem.exists /\ HasKey(mem.data, key)
    THEN [answer |-> Lookup(mem.data, key), mem |-> mem]
    ELSE IF file.exists
           THEN LET a == Lookup(file.data, key)
                IN  [answer |-> a,
                     mem |-> IF Truthy(a) THEN [exists |-> TRUE, data |-> Put(mem.data, key, a)] ELSE mem]
           ELSE [answer |-> NoAns, mem |-> mem]

\* qa_system.py 204
save_to_cache(key, a, mem, file) ==
  [mem |-> [exists |-> TRUE, data |-> Put(mem.data, key, a)],
   file |-> [exists |-> TRUE, data |-> Put(file.data, key, a)]]

\* qa_system.py 470.  history is "None" (not passed), "empty" or "turns"; out is the
\* outcome of the chat completion if one is requested.
ask_question(q, short, language, use_agent, history, out, mem, file, run) ==
  LET noHistory == history # "turns"
      followup == is_followup_question(q)
      Fixed(kind, llm, m) ==
        [answer |-> [kind |-> kind, txt |-> kind, run |-> run, prefix |-> FALSE],
         llm |-> llm, hit |-> FALSE, wr |-> FALSE, mem |-> m, file |-> file]
  IN  IF (noHistory \/ ~followup) /\ ~is_video_related_question(q) THEN Fixed("unrelated", FALSE, mem)
      ELSE IF short THEN Fixed("no_transcript", FALSE, mem)
      ELSE IF is_summary_request(q)
        THEN IF out = "raise" THEN Fixed("summary_error", TRUE, mem)
             ELSE [Fixed("summary", TRUE, mem) EXCEPT !.answer.txt = out]
      ELSE
        LET key == QKey(q, language, use_agent)
            useCache == ~followup \/ noHistory
            got == IF useCache THEN get_cached_answer(key, mem, file)
                   ELSE [answer |-> NoAns, mem |-> mem]
        IN  IF Truthy(got.answer)
              THEN [answer |-> got.answer, llm |-> FALSE, hit |-> TRUE, wr |-> FALSE,
                    mem |-> got.mem, file |-> file]
            ELSE IF out = "raise" THEN Fixed("apology", TRUE, got.mem)
            ELSE LET a == [kind |-> "llm", txt |-> ExtractFinal(out, use_agent), run |-> run,
                           prefix |-> FALSE]
                     sv == IF useCache THEN save_to_cache(key, a, got.mem, file)
                           ELSE [mem |-> got.mem, file |-> file]
                 IN  [answer |-> a, llm |-> TRUE, hit |-> FALSE, wr |-> useCache,
                      mem |-> sv.mem, file |-> sv.file]

\* ------------------------------------------- POST /videos/{video_id}/question
\* app.py 62: the session id is made on the first question of a browser session
SessionOf(v, b) == IF cookie[b] = NoSession THEN <<v, b>> ELSE cookie[b]

RememberAll(turns, q, a) == Append(turns, [q |-> q, a |-> a])

\* append and `if len(conversation_history) > 10: pop(0)`
Remember(turns, q, a) ==
  LET t == Append(turns, [q |-> q, a |-> a])
  IN  IF Len(t) > HistoryCap THEN Tail(t) ELSE t

\* lines 553-586: the replies given before the question is looked at
AskRefused(v, status) ==
  /\ last' = Reply("ask", v, status)
  /\ UNCHANGED <<cacheFile, segCacheFile, memory_cache, conversation_histories, cookie, asked>>

\* lines 588-736
AskAnswered(v, b, q, language, use_agent, flag, w, out) ==
  LET sid == SessionOf(v, b)
      turns == conversation_histories[sid].turns
      is_followup == IF flag = "None" THEN is_followup_question(q) /\ Len(turns) > 0
                     ELSE flag = "True"
      history == IF ~is_followup THEN "None" ELSE IF turns = <<>> THEN "empty" ELSE "turns"
      short == TranscriptShort(transcript[v])
      run == transcript[v].run
      mode == [q |-> q, language |-> language, m |-> use_agent]
      Done(a, cached, llm, hit, wr) ==
        /\ conversation_histories' = [conversation_histories EXCEPT ![sid] =
               [exists |-> TRUE, turns |-> Remember(turns, q, a),
                log |-> Append(@.log, [q |-> q, a |-> a]), about |-> Append(@.about, v)]]
        /\ cookie' = [cookie EXCEPT ![b] = sid]
        /\ last' = [op |-> "ask", vid |-> v, status |-> "answered", answer |-> a,
                    cached |-> PyStr(cached), llm |-> llm, fup |-> is_followup, hit |-> hit,
                    wr |-> wr, window |-> (w # NoWindow), expected |-> Lookup(asked[v], mode),
                    chunks |-> <<None, None>>, message |-> FALSE, req |-> <<None, FALSE>>]
        /\ asked' = IF is_followup \/ w # NoWindow THEN asked
                    ELSE [asked EXCEPT ![v] = Put(@, mode, a)]
  IN  IF w # NoWindow
        THEN LET key == SKey(q, language, w)
                 found == IF segCacheFile[v].exists THEN Lookup(segCacheFile[v].data, key) ELSE NoAns
             IN  IF Truthy(found)
                   THEN /\ Done(found, TRUE, FALSE, TRUE, FALSE)
                        /\ UNCHANGED <<cacheFile, segCacheFile, memory_cache>>
                   ELSE LET r == ask_question(q, short, language, use_agent, history, out,
                                              memory_cache[v], cacheFile[v], run)
                            a == [r.answer EXCEPT !.prefix = TRUE]
                        IN  /\ segCacheFile' = [segCacheFile EXCEPT ![v] =
                                   [exists |-> TRUE, data |-> Put(@.data, key, a)]]
                            /\ cacheFile' = [cacheFile EXCEPT ![v] = r.file]
                            /\ memory_cache' = [memory_cache EXCEPT ![v] = r.mem]
                            /\ Done(a, FALSE, r.llm, r.hit, TRUE)
        ELSE LET key == EKey(q, language, is_followup)
                 found == IF cacheFile[v].exists /\ ~is_followup
                            THEN Lookup(cacheFile[v].data, key) ELSE NoAns
             IN  IF Truthy(found)
                   THEN /\ Done(found, TRUE, FALSE, TRUE, FALSE)
                        /\ UNCHANGED <<cacheFile, segCacheFile, memory_cache>>
                   ELSE LET r == ask_question(q, short, language, use_agent, history, out,
                                              memory_cache[v], cacheFile[v], run)
                            a == StripFinal(r.answer, language, use_agent)
                        IN  /\ cacheFile' = [cacheFile EXCEPT ![v] =
                                   IF is_followup THEN r.file
                                   ELSE [exists |-> TRUE, data |-> Put(r.file.data, key, a)]]
                            /\ memory_cache' = [memory_cache EXCEPT ![v] = r.mem]
                            /\ UNCHANGED segCacheFile
                            /\ Done(a, FALSE, r.llm, r.hit, r.wr \/ ~is_followup)

AskWithin(n, v, b, q, language, use_agent, flag, w, out) ==
  /\ running = 0 /\ nAsk < n
  /\ nAsk' = nAsk + 1
  /\ IF ~record[v].exists THEN AskRefused(v, "not_found")
     ELSE IF /\ record[v].is_long_video /\ record[v].processing_status # "complete"
             /\ record[v].chunks_completed < record[v].chunks_total
            THEN AskRefused(v, "in_progress")
     ELSE IF ~transcript[v].exists THEN AskRefused(v, "no_transcript")
     ELSE AskAnswered(v, b, q, language, use_agent, flag, w, out)
  /\ UNCHANGED <<progress_status, record, transcript, audio, collection, jobs, running, nReq,
                 runNo, tr, seg, split, scratch, lib>>

ask(v, b, q, language, use_agent, flag, w, out) ==
  AskWithin(MaxAsks, v, b, q, language, use_agent, flag, w, out)


\* ------------------------------------------------------------ initial state
\* no call of transcribe_segments in progress
NoTr ==
  [segments |-> <<>>, language |-> NoneStr, finished |-> {}, order |-> <<>>, results |-> <<>>,
   i |-> 0,
   transcript |-> <<>>, entries |-> <<>>, pc |-> "idle"]

\* extract_transcript_segment not called
NoSeg == [transcript |-> <<>>, start |-> None, end |-> None, duration |-> None,
          result |-> [whole |-> FALSE, frags |-> <<>>], pc |-> "idle"]

\* no library call under study
NoLib == [pc |-> "idle"]

\* split_audio not called
NoSplit == [duration |-> None, max_seconds |-> None, is_long_video |-> FALSE,
            segments_count |-> None, segments |-> {}, pc |-> "idle"]

InitServer ==
  /\ progress_status = InitProgress
  /\ record = [v \in Sources |-> NoRecord]
  /\ transcript = [v \in Sources |-> NoTranscript]
  /\ audio = [v \in Sources |-> FALSE]
  /\ collection = [v \in Sources |-> NoCollection]
  /\ cacheFile = [v \in Sources |-> NoFile]
  /\ segCacheFile = [v \in Sources |-> NoFile]
  /\ memory_cache = [v \in Sources |-> NoFile]
  /\ conversation_histories = [s \in SessionIds |-> NoHistory]
  /\ cookie = [b \in Clients |-> NoSession]
  /\ jobs = [j \in JobIds |-> NoJob]
  /\ running = 0
  /\ nReq = 0
  /\ nAsk = 0
  /\ asked = [v \in Sources |-> {}]
  /\ runNo = [v \in Sources |-> 0]
  /\ last = NoLast
  /\ scratch = [v \in Sources |-> NoScratch]

Init == InitServer /\ tr = NoTr /\ seg = NoSeg /\ split = NoSplit /\ lib = NoLib

\* ------------------------------------------- the job pipeline: SpecJob
\* declared durations (info["duration"]) and probed durations (get_audio_duration)
DeclaredDurations == {0, 2400}
ProbedDurations == {0, 1000, 1300}
ChunkTexts == {"T", ""}

JobStepOver(j, texts, probes) ==
  \/ JobStart(j)
  \/ JobRecordDownloading(j)
  \/ JobProgressDownloading(j)
  \/ JobDownloadOk(j)
  \/ JobDownloadFail(j)
  \/ \E a \in probes : JobProbe(j, a)
  \/ JobRecordTranscribing(j)
  \/ JobChunkBegin(j)
  \/ JobChunkFail(j)
  \/ \E txt \in texts : JobChunkDone(j, txt)
  \/ JobRecordChunk(j)
  \/ JobSaveTranscript(j)
  \/ JobProgressIndexing(j)
  \/ JobIndex(j)
  \/ JobRecordFinal(j)
  \/ JobProgressDone(j)

JobStep(j, texts) == JobStepOver(j, texts, ProbedDurations)

\* requests for the sources S, direct-mode outcomes O, chunk transcripts from texts
NextJobOver(S, O, texts) ==
  \/ \E v \in S : ProcessNoDuration(v, "ok") /\ UNCHANGED <<tr, seg, split, lib>>
  \/ \E v \in S, d \in DeclaredDurations, force \in BOOLEAN :
        ProcessChunked(v, d, force, NoneStr, "ok") /\ UNCHANGED <<tr, seg, split, lib>>
  \/ \E v \in S, d \in DeclaredDurations, o \in O :
        ProcessDirect(v, d, FALSE, NoneStr, o, "ok") /\ UNCHANGED <<tr, seg, split, lib>>
  \/ \E v \in S : delete_video(v, "ok")
  \/ \E j \in JobIds : JobStep(j, texts)

\* SpecJob: one source, every outcome of every stage
NextJob == NextJobOver({"v1"}, {"download", "split", "transcribe", "ok"}, ChunkTexts)

SpecJob == Init /\ [][NextJob]_vars

\* SpecJobs: jobs and requests for two sources sharing the tracker
NextJobs == NextJobOver(Sources, {"download", "ok"}, {"T"})

SpecJobs == Init /\ [][NextJobs]_vars


\* ------------------------------------------------ properties of the job pipeline
Last(s) == s[Len(s)]

\* the positions of a job after chunks_total has been settled by the probe
AfterProbe == {"record_transcribing", "loop", "chunk", "record_chunk", "progress_indexing",
               "index", "record_final", "progress_done"}

\* the positions of a job after the super-chunk loop
AfterLoop == {"progress_indexing", "index", "record_final", "progress_done", "done"}

\* C4: chunks_completed never exceeds chunks_total, in the tracker and in every job
\* record, at every moment: through the recalibration of chunks_total, through a job
\* that follows another job, and with jobs and requests for two sources in flight.
C4_CompletedWithinTotal ==
  /\ progress_status.chunks_completed <= progress_status.chunks_total
  /\ \A v \in Sources : record[v].chunks_completed <= record[v].chunks_total

\* a job recalibrated to fewer chunks has finished while the job requested before it,
\* for the other source, still waits to start
C4_Witness ==
  /\ jobs[1].pc = "pending" /\ jobs[2].pc = "done"
  /\ jobs[1].vid # jobs[2].vid
  /\ jobs[2].total_chunks < ChunkCount(jobs[2].duration, jobs[2].chunk_duration)
  /\ record[jobs[2].vid].chunks_completed = record[jobs[2].vid].chunks_total
  /\ progress_status.chunks_completed = progress_status.chunks_total
  /\ progress_status.chunks_total > 0

\* C5: while a job runs, each value it writes to chunks_completed, in the tracker and
\* in its record, is at least the value it wrote there before, whichever super-chunks
\* fail (rcLast = None: the job has not written its record yet).
C5_Step ==
  \A j \in JobIds :
    running = j =>
      /\ progress_status'.chunks_completed >= progress_status.chunks_completed
      /\ jobs[j].rcLast # None =>
            record'[jobs[j].vid].chunks_completed >= record[jobs[j].vid].chunks_completed

C5_CompletedMonotone == [][C5_Step]_vars

\* a finished job whose first super-chunk failed and whose second one succeeded
C5_Witness ==
  \E j \in JobIds :
    /\ jobs[j].pc = "done" /\ jobs[j].failed = {0} /\ jobs[j].visited = {0, 1}
    /\ progress_status.chunks_completed = 2
    /\ record[jobs[j].vid].chunks_completed = 2

\* C6: the tracker's percentage is always an integer from 0 to 100, and from the moment
\* the running job has settled chunks_total it never decreases until the job ends.
C6_Step ==
  /\ progress_status'.percentage \in 0..100
  /\ \A j \in JobIds :
       (running = j /\ jobs[j].pc \in AfterProbe) =>
          progress_status'.percentage >= progress_status.percentage

C6_PercentageMonotone == (progress_status.percentage \in 0..100) /\ [][C6_Step]_vars

\* a recalibrated job that has gone through its loop and reports 90 before indexing
C6_Witness ==
  \E j \in JobIds :
    /\ running = j /\ jobs[j].pc = "index" /\ jobs[j].actual_duration > 0
    /\ jobs[j].total_chunks = 2 /\ jobs[j].failed # {}
    /\ progress_status.percentage = 90

\* C7: the statuses a job persists follow initial -> downloading -> transcribing ->
\* indexing -> complete, a finished job has passed through each of them, error is
\* entered only from a non-terminal status, and nothing is written after a terminal one.
StatusOrder == <<"initializing", "downloading", "transcribing", "indexing", "complete">>

StatusEdges ==
  {<<StatusOrder[k], StatusOrder[k + 1]>> : k \in 1..4} \cup {<<StatusOrder[k], "error">> : k \in 1..4}

C7_StatusPath ==
  \A j \in JobIds :
    LET s == jobs[j].statuses
    IN  /\ \A k \in 1..(Len(s) - 1) : <<s[k], s[k + 1]>> \in StatusEdges
        /\ jobs[j].pc = "done" => s = StatusOrder

\* C8: a failing super-chunk never ends the job: whatever chunks fail, every chunk is
\* visited, the transcript holds exactly the chunks that did not fail, in order, the
\* job ends with status complete, and a job that ends in error has visited no chunk.
C8_FailuresDoNotAbort ==
  \A j \in JobIds :
    LET job == jobs[j]
    IN  /\ job.pc = "error" => job.visited = {}
        /\ job.pc \in AfterLoop =>
             /\ job.visited = 0..(job.total_chunks - 1)
             /\ {job.all_transcripts[k].i : k \in 1..Len(job.all_transcripts)} = job.visited \ job.failed
             /\ \A k \in 1..(Len(job.all_transcripts) - 1) :
                    job.all_transcripts[k].i < job.all_transcripts[k + 1].i
        /\ job.pc = "done" => (Last(job.statuses) = "complete" /\ job.wroteTranscript)

\* a job ended complete although its first super-chunk failed
C8_Witness ==
  \E j \in JobIds :
    /\ jobs[j].pc = "done" /\ 0 \in jobs[j].failed /\ 1 \in jobs[j].visited \ jobs[j].failed
    /\ record[jobs[j].vid].processing_status = "complete"
    /\ transcript[jobs[j].vid].chunks = <<[i |-> 1, txt |-> "T"]>>

\* C9: when the download fails, that step sets the record's status to error with an
\* error message, no super-chunk has been or is processed, and the job has written, and
\* writes, neither a transcript nor a collection.
C9_Step ==
  \A j \in JobIds :
    (jobs[j].pc = "download" /\ jobs'[j].pc = "error") =>
       /\ record'[jobs[j].vid].processing_status = "error"
       /\ record'[jobs[j].vid].error_message
       /\ jobs'[j].visited = {} /\ ~jobs'[j].wroteTranscript /\ ~jobs'[j].wroteCollection
       /\ transcript' = transcript /\ collection' = collection
       /\ running' = 0

C9_DownloadFailure == [][C9_Step]_vars

\* a job stopped by the download failure
C9_Witness ==
  \E j \in JobIds :
    /\ jobs[j].pc = "error" /\ jobs[j].statuses = <<"initializing", "downloading", "error">>
    /\ record[jobs[j].vid].processing_status = "error" /\ record[jobs[j].vid].error_message
    /\ ~transcript[jobs[j].vid].exists /\ ~collection[jobs[j].vid].exists

\* ------------------------------------------- questions and answers: SpecQA
\* direct-mode processing, deletion and questions about the sources S
NextQAOver(S, Qs, Ls, Fs, Os) ==
  \/ \E v \in S, o \in {"download", "ok"} :
        ProcessDirect(v, 0, FALSE, NoneStr, o, "ok") /\ UNCHANGED <<tr, seg, split, lib>>
  \/ \E v \in S : delete_video(v, "ok")
  \/ \E v \in S, b \in Clients, q \in Qs, language \in Ls, use_agent \in BOOLEAN, flag \in Fs,
        w \in Windows \cup {NoWindow}, out \in Os :
        ask(v, b, q, language, use_agent, flag, w, out)

NextQA == NextQAOver({"v1"}, Questions, Languages, Flags, LLMOutcomes)

SpecQA == Init /\ [][NextQA]_vars

\* C1: once a source has been processed again, no answer made from an earlier run's
\* transcript is returned for it: not from the question cache file, not from the
\* time-window cache file, not from the in-memory cache.
C1_NoStaleAnswer ==
  (last.op = "ask" /\ last.status = "answered") => last.answer.run = transcript[last.vid].run

\* C2: a non-follow-up question without time window that was answered before for the
\* same source, language and mode, with no re-processing in between, gets the same
\* answer again, marked cached, and no chat completion is requested.
C2_CacheRoundTrip ==
  (/\ last.op = "ask" /\ last.status = "answered"
   /\ ~last.fup /\ ~last.window
   /\ last.expected.kind # "none")
    => (last.cached = "True" /\ last.answer = last.expected /\ ~last.llm)

\* C3: a question handled as a follow-up, by flag or by classification, whatever its
\* text and the history length, neither gets an entry of a cache returned nor has an
\* entry written to a cache, in the endpoint and in ask_question.
C3_FollowupBypass ==
  (last.op = "ask" /\ last.status = "answered" /\ last.fup) => (~last.hit /\ ~last.wr)

\* ------------------------------------------- transcribe_segments (transcription.py 72)
\* A text is a sequence of characters.  tr.segments[k] is what transcribe_single_segment
\* returns for the k-th segment file: its text, or "" (<<>>) when the file is missing
\* or the request fails.  tr.order lists the segments in the order their calls returned.  tr.entries lists the ordinals whose text went into the
\* transcript; it only records, nothing reads it.
Fragments == {<<>>, <<"A">>, <<"b">>, <<"c", ".">>, <<" ">>}
TrLanguages == {"en", "ar"}

IsLower(c) == c \in {"b", "c"}
IsSpace(c) == c \in {" ", "\n"}
SentenceEnd == {".", "!", "?"}

\* str.rstrip()
RECURSIVE RStrip(_)
RStrip(s) == IF s # <<>> /\ IsSpace(s[Len(s)]) THEN RStrip(SubSeq(s, 1, Len(s) - 1)) ELSE s

\* str.split("\n")
RECURSIVE SplitLines(_, _)
SplitLines(s, line) ==
  IF s = <<>> THEN <<line>>
  ELSE IF Head(s) = "\n" THEN <<line>> \o SplitLines(Tail(s), <<>>)
  ELSE SplitLines(Tail(s), Append(line, Head(s)))

\* "\n".join(lines)
RECURSIVE JoinLines(_)
JoinLines(lines) ==
  IF lines = <<>> THEN <<>>
  ELSE IF Len(lines) = 1 THEN lines[1]
  ELSE lines[1] \o <<"\n">> \o JoinLines(Tail(lines))

\* line.strip() is not empty
NotBlank(line) == \E k \in 1..Len(line) : ~IsSpace(line[k])

\* line 114: "\n".join(line for line in transcript.split("\n") if line.strip())
DropBlankLines(s) == JoinLines(SelectSeq(SplitLines(s, <<>>), NotBlank))

TrUnchanged == UNCHANGED <<progress_status, record, transcript, audio, collection, cacheFile,
                           segCacheFile, memory_cache, conversation_histories, cookie, jobs,
                           running, nReq, nAsk, runNo, asked, last, seg, split, scratch, lib>>

\* lines 86-89: a worker of the pool returns the text of segment k; the workers
\* finish in any order
TrSegmentDone(k) ==
  /\ tr.pc = "map"
  /\ k \in (1..Len(tr.segments)) \ tr.finished
  /\ tr' = [tr EXCEPT !.finished = @ \cup {k}, !.order = Append(@, k)]
  /\ TrUnchanged

\* TrCollect that takes the texts in the order the calls returned (as
\* concurrent.futures.as_completed would): the sensitivity check of C11
TrCollectAsCompleted ==
  /\ tr.pc = "map"
  /\ tr.finished = 1..Len(tr.segments)
  /\ tr' = [tr EXCEPT !.results = [k \in 1..Len(tr.segments) |-> tr.segments[tr.order[k]]],
                       !.pc = "merge"]
  /\ TrUnchanged

\* line 89: list(executor.map(...)) yields the texts in the order of the segments
TrCollect ==
  /\ tr.pc = "map"
  /\ tr.finished = 1..Len(tr.segments)
  /\ tr' = [tr EXCEPT !.results = tr.segments, !.pc = "merge"]
  /\ TrUnchanged

\* lines 98-111: one iteration of the joining loop (i counts from 0 as in the source)
TrMergeStep ==
  /\ tr.pc = "merge"
  /\ tr.i < Len(tr.results)
  /\ LET segment_text == tr.results[tr.i + 1]
         t == tr.transcript
     IN  tr' = IF segment_text = <<>>
                 THEN [tr EXCEPT !.i = @ + 1]
               ELSE IF /\ tr.i > 0 /\ IsLower(segment_text[1])
                       /\ t # <<>> /\ t[Len(t)] \notin SentenceEnd
                 THEN [tr EXCEPT !.i = @ + 1, !.entries = Append(@, tr.i),
                                 !.transcript = RStrip(t) \o <<" ">> \o segment_text]
               ELSE [tr EXCEPT !.i = @ + 1, !.entries = Append(@, tr.i),
                               !.transcript = t \o segment_text \o <<"\n">>]
  /\ TrUnchanged

\* lines 114-118: blank lines dropped, the right-to-left mark "RLE" put first for Arabic
TrFinish ==
  /\ tr.pc = "merge"
  /\ tr.i = Len(tr.results)
  /\ LET t == DropBlankLines(tr.transcript)
     IN  tr' = [tr EXCEPT !.pc = "done",
                          !.transcript = IF tr.language = "ar" THEN <<"RLE">> \o t ELSE t]
  /\ TrUnchanged

\* the calls: the texts of 1..MaxSegs segments, each a fragment or a failure
RECURSIVE SeqsUpTo(_, _)
SeqsUpTo(S, n) ==
  IF n = 0 THEN {<<>>}
  ELSE LET shorter == SeqsUpTo(S, n - 1)
       IN  shorter \cup {Append(q, x) : q \in {r \in shorter : Len(r) = n - 1}, x \in S}

InitTr ==
  /\ InitServer
  /\ lib = NoLib
  /\ seg = NoSeg
  /\ split = NoSplit
  /\ tr \in {[NoTr EXCEPT !.segments = segs, !.language = language, !.pc = "map"] :
               segs \in SeqsUpTo(Fragments, MaxSegs) \ {<<>>}, language \in TrLanguages}

NextTr ==
  \/ \E k \in 1..MaxSegs : TrSegmentDone(k)
  \/ TrCollect
  \/ TrMergeStep
  \/ TrFinish

SpecTr == InitTr /\ [][NextTr]_vars

\* C10: when some but not all segments of a call fail, the merged transcript holds one
\* entry for every segment ordinal, the failed ordinals included (as empty markers).
C10_EntryPerOrdinal ==
  (/\ tr.pc = "done"
   /\ \E k \in 1..Len(tr.segments) : tr.segments[k] = <<>>
   /\ \E k \in 1..Len(tr.segments) : tr.segments[k] # <<>>)
    => tr.entries = [k \in 1..Len(tr.segments) |-> k - 1]

\* the loop of lines 97-111 and line 114-118 as a function of the texts taken in
\* segment order: the transcript after the texts from position k + 1 on are joined to t
RECURSIVE JoinFrom(_, _, _)
JoinFrom(texts, k, t) ==
  IF k >= Len(texts) THEN t
  ELSE LET segment_text == texts[k + 1]
       IN  JoinFrom(texts, k + 1,
             IF segment_text = <<>> THEN t
             ELSE IF /\ k > 0 /\ IsLower(segment_text[1]) /\ t # <<>> /\ t[Len(t)] \notin SentenceEnd
               THEN RStrip(t) \o <<" ">> \o segment_text
             ELSE t \o segment_text \o <<"\n">>)

MergedInOrder(texts, language) ==
  LET t == DropBlankLines(JoinFrom(texts, 0, <<>>))
  IN  IF language = "ar" THEN <<"RLE">> \o t ELSE t

\* C11: whatever the order in which the parallel calls return, the texts are joined in
\* segment order: the loop sees them in that order, the ordinals joined are increasing,
\* and the result is the one function of the segment list.
C11_MergeInSegmentOrder ==
  /\ tr.pc \in {"merge", "done"} => tr.results = tr.segments
  /\ \A k \in 1..(Len(tr.entries) - 1) : tr.entries[k] < tr.entries[k + 1]
  /\ tr.pc = "done" => tr.transcript = MergedInOrder(tr.segments, tr.language)

\* a call whose last segment returned first, with different texts in different places
C11_Witness ==
  /\ tr.pc = "done"
  /\ tr.segments = <<<<"A">>, <<"b">>, <<"c", ".">>>>
  /\ tr.order = <<3, 1, 2>>
  /\ tr.transcript = <<"A", " ", "b", " ", "c", ".">>

\* ------------------------------------------- status queries: SpecStatus
\* the jobs and requests of SpecJobs, with status queries for both sources
NextStatus ==
  \/ NextJobs
  \/ \E v \in Sources : get_video_status(v)

SpecStatus == Init /\ [][NextStatus]_vars

\* C12: a status query for a source with a job record answers with the status and the
\* counters of that record, and with the error message once the job has failed.
C12_StatusFromRecord ==
  (last.op = "status" /\ record[last.vid].exists /\ record[last.vid].is_long_video) =>
     /\ last.status = record[last.vid].processing_status
     /\ last.chunks = <<record[last.vid].chunks_total, record[last.vid].chunks_completed>>
     /\ record[last.vid].processing_status = "error" => last.message

\* a background task that has been handed over and has not returned yet
LiveJob(j) == jobs[j].pc \notin {"none", "ended", "done", "error"}

\* C13: no two jobs are live for the same source at any time.
C13_OneLiveJobPerSource ==
  \A j1, j2 \in JobIds : (j1 # j2 /\ LiveJob(j1) /\ LiveJob(j2)) => jobs[j1].vid # jobs[j2].vid

\* ------------------------------------- POST /videos/{video_id}/language
\* lines 826-855: 400 without a language, 404 without a record, else the record is
\* read, its language replaced and the whole record written back.
update_video_language(v, language) ==
  /\ running = 0
  /\ IF language = ""
       THEN /\ last' = Reply("language", v, "http_400")
            /\ UNCHANGED record
     ELSE IF ~record[v].exists
       THEN /\ last' = Reply("language", v, "not_found")
            /\ UNCHANGED record
     ELSE /\ record' = [record EXCEPT ![v].language = language]
          /\ last' = Reply("language", v, "success")
  /\ UNCHANGED <<progress_status, transcript, audio, collection, cacheFile, segCacheFile,
                 memory_cache, conversation_histories, cookie, jobs, running, nReq, nAsk, runNo,
                 asked, tr, seg, split, scratch, lib>>

\* --------------------------------------- writers of the record: SpecWriters
\* chunked processing of one source, its jobs, and language updates in between
NextWriters ==
  \/ \E force \in BOOLEAN :
        ProcessChunked("v1", 2400, force, NoneStr, "ok") /\ UNCHANGED <<tr, seg, split, lib>>
  \/ \E j \in JobIds : JobStepOver(j, {"T"}, {0, 1300})
  \/ \E language \in {"ar", ""} : update_video_language("v1", language)

SpecWriters == Init /\ [][NextWriters]_vars

\* C29: while a job for a source is live, every step that changes the source's record
\* or the progress tracker is a step of that job.
C29_Step ==
  \A j \in JobIds :
     LiveJob(j) =>
        ((record'[jobs[j].vid] # record[jobs[j].vid] \/ progress_status' # progress_status)
           => (running = j \/ running' = j))

C29_SingleWriter == [][C29_Step]_vars

\* ------------------------------------------- re-processing: SpecReprocess
\* direct-mode processing and deletion of two sources, with every outcome of the
\* clean-up and of the pipeline
NextReprocess ==
  \/ \E v \in Sources, o \in {"download", "split", "transcribe", "ok"}, c \in CleanOutcomes :
        ProcessDirect(v, 0, FALSE, NoneStr, o, c) /\ UNCHANGED <<tr, seg, split, lib>>
  \/ \E v \in Sources, c \in CleanOutcomes : delete_video(v, c)

SpecReprocess == Init /\ [][NextReprocess]_vars

\* C14: the collection of a source never holds chunks of two processing runs: the
\* chunks of an earlier run are gone before a re-run adds its own.
C14_NoMixedCollection == \A v \in Sources : Cardinality(collection[v].runs) <= 1

\* ------------------------------------------ extract_transcript_segment: SpecSeg
\* A transcript with timestamp markers is the one process_long_video writes: one
\* fragment "[MM:SS] text" per transcribed chunk, MM:SS the chunk's start
\* chunk_idx * chunk_duration (failed chunks leave no fragment).  A fragment is
\* identified here by its start in seconds; minutes * 60 + seconds of the parsed
\* marker gives back the start the marker was formatted from.
Padding == 30
ShortWindow == 60

ChunkStarts == {0, 1200, 2400, 3600}
SegStarts == {0, 300, 1190, 2000}
SegEnds == {100, 400, 1210, 1260, 2500}
SegDurations == {0, 2400, 4800}

Abs(x) == IF x < 0 THEN 0 - x ELSE x
Min(a, b) == IF a < b THEN a ELSE b
Range(s) == {s[i] : i \in DOMAIN s}

RECURSIVE Ascending(_)
\* the elements of a set of numbers, in increasing order
Ascending(S) ==
  IF S = {} THEN <<>>
  ELSE LET m == CHOOSE x \in S : \A y \in S : x <= y
       IN  <<m>> \o Ascending(S \ {m})

\* lines 215-248: a fragment becomes a segment when the next marker (or the end of
\* the text) is reached, and only `if current_text and current_time > 0`
ParseSegments(fragments) == SelectSeq(fragments, LAMBDA t : t > 0)

\* min(segments, key=lambda x: abs(x[0] - at)) and segments.index of it: the first
\* segment at the least distance
Closest(segments, at) ==
  CHOOSE i \in 1..Len(segments) :
    \A k \in 1..Len(segments) :
      \/ Abs(segments[i] - at) < Abs(segments[k] - at)
      \/ Abs(segments[i] - at) = Abs(segments[k] - at) /\ i <= k

WholeTranscript == [whole |-> TRUE, frags |-> <<>>]

extract_transcript_segment(fragments, start_time_sec, end_time_sec, video_duration) ==
  IF fragments = <<>> THEN [whole |-> FALSE, frags |-> <<>>]
  ELSE IF end_time_sec - start_time_sec < ShortWindow THEN WholeTranscript
  ELSE LET segments == ParseSegments(fragments)
           start_with_padding == Max(0, start_time_sec - Padding)
           end_with_padding == Min(video_duration, end_time_sec + Padding)
           relevant == SelectSeq(segments,
                         LAMBDA t : start_with_padding <= t /\ t <= end_with_padding)
       IN  IF segments = <<>> THEN WholeTranscript
           ELSE IF relevant # <<>> THEN [whole |-> FALSE, frags |-> relevant]
           ELSE LET a == Closest(segments, start_time_sec)
                    b == Closest(segments, end_time_sec)
                IN  [whole |-> FALSE, frags |-> SubSeq(segments, Min(a, b), Max(a, b))]

ExtractSegment ==
  /\ seg.pc = "args"
  /\ seg' = [seg EXCEPT !.result = extract_transcript_segment(seg.transcript, seg.start,
                                                              seg.end, seg.duration),
                        !.pc = "done"]
  /\ UNCHANGED <<progress_status, record, transcript, audio, collection, cacheFile,
                 segCacheFile, memory_cache, conversation_histories, cookie, jobs, running,
                 nReq, nAsk, runNo, asked, last, tr, split, scratch, lib>>

InitSeg ==
  /\ InitServer
  /\ lib = NoLib
  /\ tr = NoTr
  /\ split = NoSplit
  /\ seg \in {[NoSeg EXCEPT !.transcript = Ascending(F), !.start = a, !.end = b,
                            !.duration = d, !.pc = "args"] :
                F \in (SUBSET ChunkStarts) \ {{}}, a \in SegStarts, b \in SegEnds,
                d \in SegDurations}

NextSeg == ExtractSegment

SpecSeg == InitSeg /\ [][NextSeg]_vars

InPadded(t) == seg.start - Padding <= t /\ t <= seg.end + Padding
\* the fragments whose text is in the returned string
Returned == IF seg.result.whole THEN Range(seg.transcript) ELSE Range(seg.result.frags)

\* C15: for a window start < end with at least one fragment stamped inside
\* [start-30, end+30], the returned text consists of exactly the fragments stamped
\* inside that padded window.
C15_OnlyPaddedWindow ==
  (/\ seg.pc = "done"
   /\ seg.start < seg.end
   /\ \E t \in Range(seg.transcript) : InPadded(t))
  => Returned = {t \in Range(seg.transcript) : InPadded(t)}

Nearest(i, at) ==
  \A k \in 1..Len(seg.transcript) :
    Abs(seg.transcript[i] - at) <= Abs(seg.transcript[k] - at)

\* C16: for a window with no fragment stamped inside the padded window, the returned
\* text is the run of fragments from one nearest to start to one nearest to end,
\* nearest among all fragments of the transcript, the one stamped 00:00 included.
\* (Stated for windows of 60 s and more, and for any choice among equally near
\* fragments.)
C16_NearestBracketing ==
  (/\ seg.pc = "done"
   /\ seg.end - seg.start >= ShortWindow
   /\ \A t \in Range(seg.transcript) : ~InPadded(t))
  => \E i, k \in 1..Len(seg.transcript) :
       /\ Nearest(i, seg.start) /\ Nearest(k, seg.end)
       /\ Returned = Range(SubSeq(seg.transcript, Min(i, k), Max(i, k)))

\* ------------------------------------------- conversation history: SpecHistory
\* one browser session asking one source more questions than a history holds, with
\* and without a time window (the second and later askings of a question are cache
\* hits), across a re-processing of the source
MaxTurns == 12

NextHistory ==
  \/ ProcessDirect("v1", 0, FALSE, NoneStr, "ok", "ok") /\ UNCHANGED <<tr, seg, split, lib>>
  \/ \E w \in Windows \cup {NoWindow} :
        AskWithin(MaxTurns, "v1", "b1", "Who is the speaker?", "en", FALSE, "None", w, "A")

SpecHistory == Init /\ [][NextHistory]_vars

\* the last min(n, Len(s)) elements of s
LastN(s, n) == SubSeq(s, Len(s) - Min(n, Len(s)) + 1, Len(s))
Front(s) == SubSeq(s, 1, Len(s) - 1)

C17_Recent ==
  \A s \in SessionIds :
    /\ Len(conversation_histories[s].turns) <= HistoryCap
    /\ conversation_histories[s].turns = LastN(conversation_histories[s].log, HistoryCap)

C17_Step ==
  (nAsk' = nAsk + 1 /\ last'.status = "answered")
  => \E s \in SessionIds :
       LET old == conversation_histories[s].turns
           new == conversation_histories'[s].turns
       IN  /\ new # <<>> /\ new[Len(new)].a = last'.answer
           /\ Front(new) = IF Len(old) < HistoryCap THEN old ELSE Tail(old)
           /\ \A o \in SessionIds \ {s} :
                conversation_histories'[o] = conversation_histories[o]

\* C17: every session's history holds at most 10 turns and is the most recent (up
\* to 10) of the turns answered in it, in the order asked; every answered question,
\* served from a cache or not, with a time window or not, appends exactly one turn
\* to one history.
C17_HistoryIsRecentTurns == [](C17_Recent) /\ [][C17_Step]_vars

\* a cache hit of a time-windowed question has just been appended to a history that
\* had already been trimmed
C17_Witness ==
  /\ last.op = "ask" /\ last.status = "answered" /\ last.window /\ last.cached = "True"
  /\ \E s \in SessionIds : Len(conversation_histories[s].log) > HistoryCap + 1

\* C18: whenever the tracker's chunk counters are known (chunks_total > 0), its
\* percentage is the one derived from them, floor(100 * chunks_completed /
\* chunks_total), whatever percentage the last update_progress call passed.
C18_PercentageDerived ==
  progress_status.chunks_total > 0
  => progress_status.percentage =
       PyPct(progress_status.chunks_completed, progress_status.chunks_total)

\* C19: while a job is running and none of its chunks has completed, the tracker's
\* estimated_time_remaining is unset, also when an earlier job has run before.
\* (Stated for jobs none of whose chunks has failed so far.)
C19_NoEtaBeforeFirstChunk ==
  (running # 0 /\ jobs[running].all_transcripts = <<>> /\ jobs[running].failed = {})
  => ~progress_status.estimated_time_remaining

\* ------------------------------------------------- chunk counts: SpecCount
\* requests (declared duration, force_chunked) for one source, with declared
\* durations on both sides of the two thresholds; the audio probe fails (0) or
\* measures a duration shorter than the declared one
CountRequests == {<<1800, FALSE>>, <<1800, TRUE>>, <<5400, FALSE>>, <<9000, TRUE>>}
CountProbes == {0, 4000}

NextCount ==
  \/ \E r \in CountRequests :
        ProcessChunked("v1", r[1], r[2], NoneStr, "ok") /\ UNCHANGED <<tr, seg, split, lib>>
  \/ \E r \in CountRequests :
        ProcessDirect("v1", r[1], r[2], NoneStr, "ok", "ok") /\ UNCHANGED <<tr, seg, split, lib>>
  \/ \E j \in JobIds : JobStepOver(j, {"T"}, CountProbes)

SpecCount == Init /\ [][NextCount]_vars

CeilDiv(a, b) == (a + b - 1) \div b
\* max(1, ceil(d / L)) with L = 1200 if declared <= 7200 and L = 1800 otherwise
SuperChunks(d, declared) == Max(1, CeilDiv(d, IF declared <= 7200 THEN 1200 ELSE 1800))

BeforeProbe == {"record_downloading", "progress_downloading", "download", "probe"}

C20_Selection ==
  (last.op = "process" /\ last.req[1] # None)
  => (last.status = "processing_started" <=> (last.req[1] > 1800 \/ last.req[2]))

C20_InitialCount ==
  \A j \in JobIds :
    jobs[j].pc \in BeforeProbe
    => /\ jobs[j].total_chunks = SuperChunks(jobs[j].duration, jobs[j].duration)
       /\ (jobs[j].duration = 5400 => jobs[j].total_chunks = 5)

Finishes(j) == jobs[j].pc # "done" /\ jobs'[j].pc = "done"

\* the duration the final count is taken from: the measured one, or the declared one
\* where the probe failed or measured 0
Counted(j) == IF jobs[j].actual_duration > 0 THEN jobs[j].actual_duration ELSE jobs[j].duration

C20_Finish ==
  \A j \in JobIds :
    Finishes(j)
    => LET r == record'[jobs[j].vid]
       IN  /\ r.processing_status = "complete"
           /\ r.chunks_total = SuperChunks(Counted(j), jobs[j].duration)
           /\ r.chunks_completed = r.chunks_total

\* C20 (amended): chunked mode is selected iff d > 1800 or force_chunked; the job
\* starts with max(1, ceil(d / L)) super-chunks, L = 1200 if d <= 7200 and 1800
\* otherwise (5 for d = 5400); a job that finishes without a fatal error leaves
\* status complete and chunks_total = chunks_completed = max(1, ceil(a / L)), a
\* being the measured duration of the audio, or d where the measurement failed.
C20_ChunkCount == [](C20_Selection /\ C20_InitialCount) /\ [][C20_Finish]_vars

\* a job for a source of declared duration 5400 whose audio could not be measured
\* has finished with the count of its declared duration
C20_Witness ==
  \E j \in JobIds :
    /\ jobs[j].pc = "done" /\ jobs[j].duration = 5400 /\ jobs[j].actual_duration = 0
    /\ record[jobs[j].vid].chunks_total = 5 /\ record[jobs[j].vid].chunks_completed = 5
    /\ record[jobs[j].vid].processing_status = "complete"
    /\ last.op = "process" /\ last.req = <<5400, FALSE>>

\* C20 as stated: every job for d = 5400 that finishes without a fatal error ends
\* with chunks_total = chunks_completed = 5 and status complete.
C20_AsStated ==
  [][\A j \in JobIds :
       (Finishes(j) /\ jobs[j].duration = 5400)
       => /\ record'[jobs[j].vid].chunks_total = 5
          /\ record'[jobs[j].vid].chunks_completed = 5
          /\ record'[jobs[j].vid].processing_status = "complete"]_vars

\* C21: a process request that selects chunked mode answers processing_started with
\* the initial record of the source persisted in a non-terminal status and the
\* background job handed over but not begun: nothing is downloaded, transcribed or
\* indexed within the request.
C21_Step ==
  (nReq' = nReq + 1 /\ last'.status = "processing_started")
  => LET v == last'.vid
         j == nReq'
     IN  /\ record'[v].exists /\ record'[v].is_long_video
         /\ record'[v].processing_status \notin {"complete", "error", "absent"}
         /\ jobs'[j].pc = "pending" /\ jobs'[j].vid = v
         /\ running' = 0
         /\ ~audio'[v] /\ ~transcript'[v].exists /\ ~collection'[v].exists

C21_ReturnsBeforeJob == [][C21_Step]_vars

\* the reply processing_started has been given while the job it handed over is
\* still waiting to begin
C21_Witness ==
  /\ last.op = "process" /\ last.status = "processing_started"
  /\ jobs[nReq].pc = "pending" /\ jobs[nReq].vid = last.vid
  /\ record[last.vid].processing_status = "initializing"

\* C22: once delete_video has answered success for a source, nothing of the source
\* remains: no record, transcript, answer cache, time-window cache, collection or
\* conversation history, and a status query for it answers not_found (which
\* get_video_status does only when the tracker does not name the source).
C22_DeleteRemovesAll ==
  (last.op = "delete" /\ last.status = "success")
  => LET v == last.vid
     IN  /\ ~record[v].exists /\ ~transcript[v].exists /\ ~collection[v].exists
         /\ ~cacheFile[v].exists /\ ~segCacheFile[v].exists
         /\ \A s \in SessionIds : s[1] = v => ~conversation_histories[s].exists
         /\ progress_status.video_id # v

\* the join rule as stated: adjacent non-empty fragments are separated by a space
\* where the later one starts in lower case and the earlier one does not end a
\* sentence, and by a newline otherwise
RECURSIVE JoinAsStated(_, _, _)
JoinAsStated(texts, prev, t) ==
  IF texts = <<>> THEN t
  ELSE LET s == Head(texts)
           sep == IF IsLower(s[1]) /\ prev[Len(prev)] \notin SentenceEnd THEN " " ELSE "\n"
       IN  IF s = <<>> THEN JoinAsStated(Tail(texts), prev, t)
           ELSE JoinAsStated(Tail(texts), s, IF prev = <<>> THEN s ELSE t \o <<sep>> \o s)

\* C23: the transcript transcribe_segments returns is its non-empty fragments in
\* order, each adjacent pair separated by exactly one separator: a space iff the
\* later fragment starts in lower case and the earlier one does not end in '.', '!'
\* or '?', a newline otherwise.  (Stated for calls without the right-to-left mark
\* and without fragments made of white space only.)
C23_JoinRule ==
  (/\ tr.pc = "done" /\ tr.language = "en"
   /\ \A k \in 1..Len(tr.segments) : tr.segments[k] # <<" ">>)
  => tr.transcript = JoinAsStated(tr.segments, <<>>, <<>>)

\* C24: an answer taken from a cache was cached for the same question, language,
\* mode, follow-up flag and time window.  Stated for a question without time window
\* that is not handled as a follow-up and whose cached answer dates from the current
\* processing run: the cache entry returned was written by an earlier request with
\* the same text, language and mode.
C24_NoSharedCacheEntry ==
  (/\ last.op = "ask" /\ last.status = "answered"
   /\ last.hit /\ ~last.fup /\ ~last.window
   /\ last.answer.run = runNo[last.vid])
  => last.expected = last.answer

\* C25: the apology given when the chat completion fails is in no answer cache, and
\* no request gets it back as a cache hit.
C25_ApologyNotCached ==
  /\ \A v \in Sources :
       \A e \in cacheFile[v].data \cup segCacheFile[v].data \cup memory_cache[v].data :
         e.a.kind # "apology"
  /\ (last.op = "ask" /\ last.cached = "True") => last.answer.kind # "apology"

\* ------------------------------------------------------ split_audio: SpecSplit
\* The calls the program makes: process with max_seconds 120 (is_long_video left
\* False, set by the function itself for a file above 50 MB), process_long_video
\* with max_seconds 60 and is_long_video True.  Durations are whole seconds.
SplitCalls == {<<120, FALSE>>, <<120, TRUE>>, <<60, TRUE>>}
SplitDurations == {10 * k : k \in 0..40} \cup {1800, 3700, 7300}

\* lines 67-72
SegmentSeconds(duration, max_seconds, is_long_video) ==
  IF is_long_video /\ duration > 7200 THEN Max(max_seconds, 180)
  ELSE IF is_long_video /\ duration > 3600 THEN Max(max_seconds, 120)
  ELSE max_seconds

\* line 75: max(1, int(duration / max_seconds))
SegmentsCount(duration, max_seconds) == Max(1, duration \div max_seconds)

\* the whole call; failed: the segments whose ffmpeg run fails (process_segment
\* returns "", the path is left out of the result)
split_audio(failed) ==
  /\ split.pc = "args"
  /\ IF split.duration <= 0
       THEN /\ failed = {}
            /\ split' = [split EXCEPT !.pc = "done"]
       ELSE LET m == SegmentSeconds(split.duration, split.max_seconds, split.is_long_video)
                n == SegmentsCount(split.duration, m)
            IN  /\ failed \subseteq 0..(n - 1)
                /\ split' = [split EXCEPT !.max_seconds = m, !.segments_count = n,
                                          !.segments = (0..(n - 1)) \ failed, !.pc = "done"]
  /\ UNCHANGED <<progress_status, record, transcript, audio, collection, cacheFile,
                 segCacheFile, memory_cache, conversation_histories, cookie, jobs, running,
                 nReq, nAsk, runNo, asked, last, tr, seg, scratch, lib>>

InitSplit ==
  /\ InitServer
  /\ lib = NoLib
  /\ tr = NoTr
  /\ seg = NoSeg
  /\ split \in {[NoSplit EXCEPT !.duration = d, !.max_seconds = c[1], !.is_long_video = c[2],
                                !.pc = "args"] : d \in SplitDurations, c \in SplitCalls}

\* no segment fails, or one of the first three does
NextSplit == \E failed \in {{}} \cup {{i} : i \in 0..2} : split_audio(failed)

SpecSplit == InitSplit /\ [][NextSplit]_vars

\* C26: the segments split_audio plans cover the whole input: for a duration d > 0
\* and the segment length m used, segments_count * m >= d.
C26_SegmentsCoverInput ==
  (split.pc = "done" /\ split.duration > 0)
  => split.segments_count * split.max_seconds >= split.duration

\* C27: in a chunked job whose download succeeded, when the loop over the
\* super-chunks is entered the record of the source has status transcribing, the
\* duration measured on the downloaded audio, and chunks_total = max(1, ceil of
\* that duration / the job's super-chunk length).
C27_RecalibratedBeforeChunks ==
  \A j \in JobIds :
    (running = j /\ jobs[j].pc = "loop" /\ jobs[j].chunk_idx = 0)
    => LET r == record[jobs[j].vid]
       IN  /\ r.processing_status = "transcribing"
           /\ r.duration = jobs[j].actual_duration
           /\ r.chunks_total = Max(1, CeilDiv(jobs[j].actual_duration, jobs[j].chunk_duration))

\* ------------------------------------- questions during chunked jobs: SpecGate
\* chunked processing of one source, every outcome of the clean-up and of the job's
\* stages, and questions about the source in between
NextGate ==
  \/ \E c \in CleanOutcomes :
        ProcessChunked("v1", 2400, FALSE, NoneStr, c) /\ UNCHANGED <<tr, seg, split, lib>>
  \/ \E j \in JobIds : JobStepOver(j, {"T"}, {0, 1300})
  \/ \E out \in {"A", "raise"} :
        ask("v1", "b1", "Who is the speaker?", "en", FALSE, "None", NoWindow, out)

SpecGate == Init /\ [][NextGate]_vars

\* C28: no question about a chunked source whose record has a processing status
\* other than complete is answered (ask_question is not invoked for it), whatever
\* the record's chunk counters.
C28_Step ==
  (nAsk' = nAsk + 1 /\ last'.status = "answered")
  => LET r == record[last'.vid]
     IN  ~(r.is_long_video /\ r.processing_status # "complete")

C28_NoAnswerBeforeComplete == [][C28_Step]_vars

\* ------------------------------------- one browser, two sources: SpecSessions
\* direct-mode processing of two sources and questions of one browser session about
\* either of them
NextSessions ==
  \/ \E v \in Sources :
        ProcessDirect(v, 0, FALSE, NoneStr, "ok", "ok") /\ UNCHANGED <<tr, seg, split, lib>>
  \/ \E v \in Sources, q \in {"Who is the speaker?", "Why?"} :
        ask(v, "b1", q, "en", FALSE, "None", NoWindow, "A")

SpecSessions == Init /\ [][NextSessions]_vars

\* the sources the kept turns of a session were asked about
TurnSources(h) == LastN(h.about, Len(h.turns))

\* C30: the turns handed to the prompt of a follow-up question about a source were
\* all asked about that source, also when one browser session asks about two sources.
C30_Step ==
  (nAsk' = nAsk + 1 /\ last'.status = "answered" /\ last'.fup)
  => \A s \in SessionIds :
        conversation_histories'[s] # conversation_histories[s]
        => \A i \in 1..Len(conversation_histories[s].turns) :
              TurnSources(conversation_histories[s])[i] = last'.vid

C30_HistoryPerSource == [][C30_Step]_vars

\* ------------------------------------- audio pieces on disk: SpecScratch
\* processing of one source in both modes, every outcome of the clean-up, of the
\* direct pipeline and of the job's stages
NextScratch ==
  \/ \E o \in {"download", "split", "transcribe", "ok"}, c \in {"ok", "temp_error"} :
        ProcessDirect("v1", 0, FALSE, NoneStr, o, c) /\ UNCHANGED <<tr, seg, split, lib>>
  \/ \E c \in {"ok", "temp_error"} :
        ProcessChunked("v1", 2400, FALSE, NoneStr, c) /\ UNCHANGED <<tr, seg, split, lib>>
  \/ \E j \in JobIds : JobStepOver(j, {"T"}, {0, 1300})
  \/ \E j \in JobIds : JobChunkFailLate(j)

SpecScratch == Init /\ [][NextScratch]_vars

\* C31: a source with no live job (its job, direct or chunked, has reached a terminal
\* state) has no segment audio file and no super-chunk audio file on disk.
C31_NoAudioPiecesLeft ==
  \A v \in Sources :
    (running = 0 /\ ~\E j \in JobIds : LiveJob(j) /\ jobs[j].vid = v) => scratch[v] = NoScratch

\* C32: the ranges <<chunk_start, chunk_end>> a job computes for its super-chunks are
\* non-empty, at most chunk_duration long, start at 0, each starts where the one before
\* ends, and the last one ends at the probed duration.
C32_RangesPartition ==
  \A j \in JobIds :
    LET job == jobs[j]
        r == job.ranges
    IN  \A i \in 1..Len(r) :
          /\ r[i][1] < r[i][2]
          /\ r[i][2] - r[i][1] <= job.chunk_duration
          /\ r[i][1] = IF i = 1 THEN 0 ELSE r[i - 1][2]
          /\ i = job.total_chunks => r[i][2] = job.actual_duration

\* ------------------------------- rag_pipeline.embed_and_store: SpecEmbed
\* A call of embed_and_store on n chunks; chunk p (0-based) stands for its own text.
\* The embedding request of each batch succeeds or raises; collection.add succeeds
\* or raises.
EmbedBatch == 20
StoreBatch == 50
EmbedSizes == {0, 1, 20, 21, 50, 51, 75}

\* every variable but lib
LibUnchanged ==
  UNCHANGED <<progress_status, record, transcript, audio, collection, cacheFile, segCacheFile,
              memory_cache, conversation_histories, cookie, jobs, running, nReq, nAsk, runNo,
              asked, last, tr, seg, split, scratch>>

\* the embedding the service returns for chunk p, and the placeholder [0.0] * 1536
Vec(p) == [zero |-> FALSE, of |-> p]
ZeroVec == [zero |-> TRUE, of |-> None]

NoEmbed == [pc |-> "idle", n |-> 0, batch_size |-> 0, i |-> 0, k |-> 0, all_embeddings |-> <<>>,
            stored |-> <<>>, failed |-> {}]

\* the end (exclusive) of the slice [from : from + size] of a list of length n
SliceEnd(from, size, n) == IF from + size <= n THEN from + size ELSE n

\* lines 156-178: `if not chunks: return False`, the collection, batch_size
EmbBegin ==
  /\ lib.pc = "called"
  /\ lib' = IF lib.n = 0 THEN [lib EXCEPT !.pc = "false"]
            ELSE [lib EXCEPT !.pc = "store_loop",
                             !.batch_size = IF StoreBatch <= lib.n THEN StoreBatch ELSE lib.n]
  /\ LibUnchanged

\* lines 180-184: the head of the loop over the batches, create_embeddings is called
EmbStoreLoop ==
  /\ lib.pc = "store_loop"
  /\ lib' = IF lib.i < lib.n THEN [lib EXCEPT !.pc = "embed", !.k = 0, !.all_embeddings = <<>>]
            ELSE [lib EXCEPT !.pc = "true"]
  /\ LibUnchanged

\* create_embeddings that adds no placeholder for a failed batch
create_embeddings_skip(ok) ==
  /\ lib.pc = "embed"
  /\ LET end == SliceEnd(lib.i, lib.batch_size, lib.n)
         from == lib.i + lib.k
         to == SliceEnd(from, EmbedBatch, end)
         got == [q \in 1..(to - from) |-> Vec(from + q - 1)]
     IN  lib' = [lib EXCEPT !.all_embeddings = IF ok THEN @ \o got ELSE @,
                            !.failed = IF ok THEN @ ELSE @ \cup (from..(to - 1)),
                            !.k = @ + EmbedBatch,
                            !.pc = IF to >= end THEN "add" ELSE "embed"]
  /\ LibUnchanged

\* lines 128-147: one iteration of the loop of create_embeddings over the texts of
\* the store batch; ok: the embedding request returned
create_embeddings(ok) ==
  /\ lib.pc = "embed"
  /\ LET end == SliceEnd(lib.i, lib.batch_size, lib.n)
         from == lib.i + lib.k
         to == SliceEnd(from, EmbedBatch, end)
         got == [q \in 1..(to - from) |-> IF ok THEN Vec(from + q - 1) ELSE ZeroVec]
     IN  lib' = [lib EXCEPT !.all_embeddings = @ \o got,
                            !.failed = IF ok THEN @ ELSE @ \cup (from..(to - 1)),
                            !.k = @ + EmbedBatch,
                            !.pc = IF to >= end THEN "add" ELSE "embed"]
  /\ LibUnchanged

\* lines 186-204: the length check, the ids chunk-(i + j), collection.add
EmbAdd ==
  /\ lib.pc = "add"
  /\ LET end == SliceEnd(lib.i, lib.batch_size, lib.n)
         e == lib.all_embeddings
     IN  lib' = IF e = <<>> \/ Len(e) # end - lib.i
                  THEN [lib EXCEPT !.pc = "store_loop", !.i = @ + lib.batch_size]
                  ELSE [lib EXCEPT !.pc = "store_loop", !.i = @ + lib.batch_size,
                                   !.stored = @ \o [j \in 1..(end - lib.i) |->
                                                      [id |-> lib.i + j - 1, doc |-> lib.i + j - 1,
                                                       vec |-> e[j]]]]
  /\ LibUnchanged

\* lines 199-211: collection.add raises, the outer handler returns False
EmbAddFail ==
  /\ lib.pc = "add"
  /\ lib' = [lib EXCEPT !.pc = "false"]
  /\ LibUnchanged

InitEmbed ==
  /\ InitServer /\ tr = NoTr /\ seg = NoSeg /\ split = NoSplit
  /\ lib \in {[NoEmbed EXCEPT !.pc = "called", !.n = n] : n \in EmbedSizes}

NextEmbed ==
  \/ EmbBegin
  \/ EmbStoreLoop
  \/ \E ok \in BOOLEAN : create_embeddings(ok)
  \/ EmbAdd
  \/ EmbAddFail

SpecEmbed == InitEmbed /\ [][NextEmbed]_vars

\* the vector expected for chunk p
Expected(p) == IF p \in lib.failed THEN ZeroVec ELSE Vec(p)

\* C33: whatever embedding batches fail, create_embeddings returns one vector per text
\* of its input in input order, the zero vector exactly for the texts of failed batches;
\* and a call of embed_and_store that returns True has stored every chunk, in order,
\* under the ids chunk-0 .. chunk-(n-1).
C33_EmbeddingsAndIds ==
  /\ lib.pc = "add" =>
        LET end == SliceEnd(lib.i, lib.batch_size, lib.n)
        IN  /\ Len(lib.all_embeddings) = end - lib.i
            /\ \A q \in 1..(end - lib.i) : lib.all_embeddings[q] = Expected(lib.i + q - 1)
  /\ lib.pc = "true" =>
        /\ Len(lib.stored) = lib.n
        /\ \A p \in 0..(lib.n - 1) :
              lib.stored[p + 1] = [id |-> p, doc |-> p, vec |-> Expected(p)]

\* 75 chunks stored in two batches, some embedding batches failed and some not
C33_Witness ==
  /\ lib.pc = "true" /\ lib.n = 75
  /\ lib.failed # {} /\ lib.failed # 0..74
  /\ Len(lib.stored) = 75

\* ------------------------------------- indexing after transcription: SpecIndex
\* processing of one source in both modes, every outcome of the direct pipeline and of
\* the job's stages, the saving of the transcript included
NextIndex ==
  \/ \E o \in {"download", "split", "transcribe", "ok", "nosave"} :
        ProcessDirect("v1", 0, FALSE, NoneStr, o, "ok") /\ UNCHANGED <<tr, seg, split, lib>>
  \/ ProcessChunked("v1", 2400, FALSE, NoneStr, "ok") /\ UNCHANGED <<tr, seg, split, lib>>
  \/ \E j \in JobIds : JobStepOver(j, {"T"}, {0, 1300})
  \/ \E j \in JobIds : JobSaveTranscriptFail(j)

SpecIndex == Init /\ [][NextIndex]_vars

\* C34: whenever chunks of a processing run are added to a source's collection, the
\* transcript file of the source holds the transcript of that run, and a chunked job
\* that adds them has visited every one of its super-chunks.
C34_Step ==
  \A v \in Sources :
    \A r \in collection'[v].runs \ collection[v].runs :
       /\ transcript'[v].exists /\ transcript'[v].run = r
       /\ \A j \in JobIds :
             running = j => jobs[j].visited = 0..(jobs[j].total_chunks - 1)

C34_IndexAfterTranscript == [][C34_Step]_vars

\* ----------------------------------- rag_pipeline.split_text: SpecChunks
\* A text is a sequence of one-character strings over letters, " ", "\n" and ".".
\* split_text is called with (chunk_size, overlap) scaled down from (350, 50), (750, 30).
OverlapWords == 5
MaxText == 5
TextAlphabet == {"a", " ", "\n", "."}
SplitParams == {<<3, 1>>, <<12, 2>>}

\* texts longer than MaxText: two paragraphs, sentences, and more than five words
SplitSamples ==
  { <<"a", "a", "\n", "\n", "a", "a">>,
    <<"a", ".", " ", "a", "\n", "\n", "a", ".">>,
    <<"a", " ", "a", " ", "a", " ", "a", " ", "a", " ", "a", ".", " ", "a", "a", "a">>,
    <<"a", " ", "a", " ", "a", " ", "a", " ", "a", " ", "a", "\n", "\n", "a", "a", "a">> }

IsPunct(c) == c \in {".", ",", "?", "!", ";", ":"}

RECURSIVE LStrip(_)
LStrip(s) == IF s # <<>> /\ IsSpace(Head(s)) THEN LStrip(Tail(s)) ELSE s

\* str.strip()
Strip(s) == RStrip(LStrip(s))

\* re.sub(r'\s+', ' ', text)
RECURSIVE CollapseSpace(_)
CollapseSpace(s) ==
  IF s = <<>> THEN <<>>
  ELSE IF IsSpace(Head(s)) THEN <<" ">> \o CollapseSpace(LStrip(s))
  ELSE <<Head(s)>> \o CollapseSpace(Tail(s))

\* re.sub(r'([.,?!;:])\s*', r'\1 ', text)
RECURSIVE SpaceAfterPunct(_)
SpaceAfterPunct(s) ==
  IF s = <<>> THEN <<>>
  ELSE IF IsPunct(Head(s)) THEN <<Head(s), " ">> \o SpaceAfterPunct(LStrip(Tail(s)))
  ELSE <<Head(s)>> \o SpaceAfterPunct(Tail(s))

\* lines 43-59
clean_text(text) == Strip(SpaceAfterPunct(CollapseSpace(text)))

\* text.split('\n\n')
RECURSIVE SplitParagraphs(_, _)
SplitParagraphs(s, cur) ==
  IF s = <<>> THEN <<cur>>
  ELSE IF Len(s) >= 2 /\ s[1] = "\n" /\ s[2] = "\n"
    THEN <<cur>> \o SplitParagraphs(SubSeq(s, 3, Len(s)), <<>>)
  ELSE SplitParagraphs(Tail(s), Append(cur, Head(s)))

\* re.split(r'(?<=[.!?])\s+', text)
RECURSIVE SplitSentences(_, _)
SplitSentences(s, cur) ==
  IF s = <<>> THEN <<cur>>
  ELSE IF IsSpace(Head(s)) /\ cur # <<>> /\ Last(cur) \in SentenceEnd
    THEN <<cur>> \o SplitSentences(LStrip(s), <<>>)
  ELSE SplitSentences(Tail(s), Append(cur, Head(s)))

\* str.split()
RECURSIVE SplitWords(_, _)
SplitWords(s, cur) ==
  IF s = <<>> THEN (IF cur = <<>> THEN <<>> ELSE <<cur>>)
  ELSE IF IsSpace(Head(s))
    THEN (IF cur = <<>> THEN <<>> ELSE <<cur>>) \o SplitWords(Tail(s), <<>>)
  ELSE SplitWords(Tail(s), Append(cur, Head(s)))

\* ' '.join(words)
RECURSIVE JoinWords(_)
JoinWords(words) ==
  IF words = <<>> THEN <<>>
  ELSE IF Len(words) = 1 THEN words[1]
  ELSE words[1] \o <<" ">> \o JoinWords(Tail(words))

NoChunks == [pc |-> "idle", text |-> <<>>, chunk_size |-> 0, overlap |-> 0, by |-> NoneStr,
             paragraphs |-> <<>>, p |-> 1, current_chunk |-> <<>>, chunks |-> <<>>]

\* lines 64-77: `if not text`, clean_text, the split at paragraph breaks, else at sentences
SplitTextBegin ==
  /\ lib.pc = "called"
  /\ lib' = IF lib.text = <<>> THEN [lib EXCEPT !.pc = "returned"]
            ELSE LET text == clean_text(lib.text)
                     paragraphs == SplitParagraphs(text, <<>>)
                 IN  IF Len(paragraphs) <= 1
                       THEN [lib EXCEPT !.pc = "loop", !.by = "sentence",
                                        !.paragraphs = SplitSentences(text, <<>>)]
                       ELSE [lib EXCEPT !.pc = "loop", !.by = "paragraph",
                                        !.paragraphs = paragraphs]
  /\ LibUnchanged

\* lines 82-104: one iteration of the loop over the paragraphs
split_text ==
  /\ lib.pc = "loop" /\ lib.p <= Len(lib.paragraphs)
  /\ LET paragraph == Strip(lib.paragraphs[lib.p])
         cur == lib.current_chunk
         words == SplitWords(cur, <<>>)
     IN  lib' =
           IF paragraph = <<>> THEN [lib EXCEPT !.p = @ + 1]
           ELSE IF Len(cur) + Len(paragraph) > lib.chunk_size
             THEN [lib EXCEPT
                     !.p = @ + 1,
                     !.chunks = IF cur # <<>> THEN Append(@, Strip(cur)) ELSE @,
                     !.current_chunk =
                        IF cur # <<>> /\ Len(cur) > lib.overlap /\ Len(words) > OverlapWords
                          THEN JoinWords(SubSeq(words, Len(words) - OverlapWords + 1, Len(words)))
                               \o <<" ">> \o paragraph
                          ELSE paragraph]
           ELSE [lib EXCEPT !.p = @ + 1,
                            !.current_chunk = IF cur # <<>> THEN cur \o <<" ">> \o paragraph
                                              ELSE paragraph]
  /\ LibUnchanged

\* lines 106-114: the last chunk, the filter of empty chunks
SplitTextEnd ==
  /\ lib.pc = "loop" /\ lib.p > Len(lib.paragraphs)
  /\ LET all == IF lib.current_chunk # <<>> THEN Append(lib.chunks, Strip(lib.current_chunk))
                ELSE lib.chunks
     IN  lib' = [lib EXCEPT !.pc = "returned", !.chunks = SelectSeq(all, NotBlank)]
  /\ LibUnchanged

InitChunks ==
  /\ InitServer /\ tr = NoTr /\ seg = NoSeg /\ split = NoSplit
  /\ lib \in {[NoChunks EXCEPT !.pc = "called", !.text = t, !.chunk_size = c[1], !.overlap = c[2]] :
                t \in SeqsUpTo(TextAlphabet, MaxText) \cup SplitSamples, c \in SplitParams}

NextChunks == SplitTextBegin \/ split_text \/ SplitTextEnd

SpecChunks == InitChunks /\ [][NextChunks]_vars

\* the paragraphs of a text: the non-blank pieces between its blank lines
ParagraphsOf(text) == SelectSeq(SplitParagraphs(text, <<>>), NotBlank)

\* s occurs in t as a contiguous piece
Within(s, t) == \E k \in 0..(Len(t) - Len(s)) : SubSeq(t, k + 1, k + Len(s)) = s

\* C35: a text with paragraph breaks is split at them, one piece per paragraph, and a
\* text without is split at its sentence boundaries; every chunk returned is non-empty
\* and every piece is found in some chunk.
C35_ParagraphsThenSentences ==
  (lib.pc = "returned" /\ lib.text # <<>>) =>
     /\ IF Len(ParagraphsOf(lib.text)) >= 2
          THEN /\ lib.by = "paragraph"
               /\ Len(lib.paragraphs) = Len(ParagraphsOf(lib.text))
          ELSE lib.by = "sentence"
     /\ \A k \in 1..Len(lib.chunks) : lib.chunks[k] # <<>>
     /\ \A k \in 1..Len(lib.paragraphs) :
           Strip(lib.paragraphs[k]) # <<>> =>
              \E c \in 1..Len(lib.chunks) : Within(Strip(lib.paragraphs[k]), lib.chunks[c])

\* C36: when a process request has been received for a source, the tracker, which now
\* names that source, shows no mode, counter or remaining-time value of an earlier job.
C36_Step ==
  nReq' = nReq + 1 =>
     /\ progress_status'.video_id = last'.vid
     /\ progress_status'.processing_type = InitProgress.processing_type
     /\ progress_status'.chunks_total = InitProgress.chunks_total
     /\ progress_status'.chunks_completed = InitProgress.chunks_completed
     /\ progress_status'.estimated_time_remaining = InitProgress.estimated_time_remaining

C36_TrackerOfThisJob == [][C36_Step]_vars

\* ------------------------------------------ the worker pools: SpecPool
\* One call of transcribe_segments or of split_audio, seen as its thread pool:
\* executor.map submits every task of the list; a task starts when fewer than
\* max_workers tasks of the pool are running (ThreadPoolExecutor keeps at most
\* max_workers threads); the `with` block ends when all its tasks have ended.
TranscribeWorkers == 5
SplitWorkersLong == 4
SplitWorkersMax == 8
ManySegments == 100
BatchThreshold == 50
SplitBatch == 20

\* numbers of segments handed to transcribe_segments
PoolSegments == {0, 1, 3, 5, 7}
\* <<duration, max_seconds, is_long_video, os.cpu_count()>> of calls of split_audio
PoolSplitCalls ==
  { <<130, 120, FALSE, 2>>, <<1500, 120, FALSE, 16>>, <<1200, 60, TRUE, 16>>,
    <<3500, 60, TRUE, 16>>, <<18200, 60, TRUE, 16>>, <<18200, 60, TRUE, 2>>,
    <<12200, 120, FALSE, 16>> }

\* transcription.py line 82
TranscribeMaxWorkers(n) == Min(TranscribeWorkers, n)

\* max_workers without the caps of lines 84 and 86
SplitMaxWorkersUncapped(cpu_count, is_long_video, segments_count) == cpu_count

\* audio_processing.py lines 81-86
SplitMaxWorkers(cpu_count, is_long_video, segments_count) ==
  IF is_long_video /\ segments_count > ManySegments THEN Min(cpu_count, SplitWorkersLong)
  ELSE Min(cpu_count, SplitWorkersMax)

NoPool == [pc |-> "idle", fn |-> NoneStr, n |-> 0, is_long_video |-> FALSE, max_workers |-> 0,
           from |-> 0, batch |-> 0, started |-> 0, running |-> 0, ended |-> 0]

\* transcription.py lines 72-86: no pool for an empty list
PoolTranscribeBegin ==
  /\ lib.pc = "called" /\ lib.fn = "transcribe_segments"
  /\ lib' = IF lib.n = 0 THEN [lib EXCEPT !.pc = "returned"]
            ELSE [lib EXCEPT !.pc = "pool", !.max_workers = TranscribeMaxWorkers(lib.n),
                             !.batch = lib.n]
  /\ LibUnchanged

\* audio_processing.py lines 60-88 and 119-136: duration, segment length, count,
\* max_workers, and the first pool: 20 tasks for a long input of more than 50
\* segments, else all of them
PoolSplitBegin ==
  /\ lib.pc = "called" /\ lib.fn = "split_audio"
  /\ LET max_seconds == SegmentSeconds(lib.duration, lib.max_seconds, lib.is_long_video)
         n == SegmentsCount(lib.duration, max_seconds)
     IN  lib' = [lib EXCEPT !.pc = "pool", !.n = n,
                   !.max_workers = SplitMaxWorkers(lib.cpu_count, lib.is_long_video, n),
                   !.batch = IF lib.is_long_video /\ n > BatchThreshold THEN Min(SplitBatch, n)
                             ELSE n]
  /\ LibUnchanged

\* a thread of the pool takes the next task of the list
PoolTaskStart ==
  /\ lib.pc = "pool"
  /\ lib.started < lib.batch /\ lib.running < lib.max_workers
  /\ lib' = [lib EXCEPT !.started = @ + 1, !.running = @ + 1]
  /\ LibUnchanged

\* a running task returns
PoolTaskEnd ==
  /\ lib.pc = "pool" /\ lib.running > 0
  /\ lib' = [lib EXCEPT !.running = @ - 1, !.ended = @ + 1]
  /\ LibUnchanged

\* the `with` block ends: the next batch of split_audio gets a new pool, or the
\* function goes on to return
PoolEnd ==
  /\ lib.pc = "pool" /\ lib.ended = lib.batch
  /\ LET from == lib.from + lib.batch
     IN  lib' = IF from < lib.n
                  THEN [lib EXCEPT !.from = from, !.batch = Min(SplitBatch, lib.n - from),
                                   !.started = 0, !.running = 0, !.ended = 0]
                  ELSE [lib EXCEPT !.pc = "returned", !.from = from]
  /\ LibUnchanged

InitPool ==
  /\ InitServer /\ tr = NoTr /\ seg = NoSeg /\ split = NoSplit
  /\ lib \in {[NoPool EXCEPT !.pc = "called", !.fn = "transcribe_segments", !.n = n] :
                n \in PoolSegments}
        \cup {[fn |-> "split_audio", pc |-> "called", duration |-> c[1], max_seconds |-> c[2],
               is_long_video |-> c[3], cpu_count |-> c[4], n |-> 0, max_workers |-> 0,
               from |-> 0, batch |-> 0, started |-> 0, running |-> 0, ended |-> 0] :
                c \in PoolSplitCalls}

NextPool ==
  \/ PoolTranscribeBegin
  \/ PoolSplitBegin
  \/ PoolTaskStart
  \/ PoolTaskEnd
  \/ PoolEnd

SpecPool == InitPool /\ [][NextPool]_vars

\* C37: at most min(5, number of segments) transcription calls of one
\* transcribe_segments call run at a time; at most 4 segment extractions of one
\* split_audio call run at a time when the input is treated as long and has more than
\* 100 segments, and at most 8 otherwise.
C37_WorkersBounded ==
  lib.pc = "pool" =>
    IF lib.fn = "transcribe_segments" THEN lib.running <= Min(5, lib.n)
    ELSE IF lib.is_long_video /\ lib.n > 100 THEN lib.running <= 4
    ELSE lib.running <= 8

\* a long input of 101 segments with four extractions running, in a later batch
C37_Witness ==
  /\ lib.pc = "pool" /\ lib.fn = "split_audio"
  /\ lib.is_long_video /\ lib.n > 100 /\ lib.from > 0
  /\ lib.running = 4

\* five of seven transcription calls running
C37_WitnessTranscribe ==
  lib.pc = "pool" /\ lib.fn = "transcribe_segments" /\ lib.n = 7 /\ lib.running = 5

\* ------------------------- the fallback context of ask_question: SpecFallback
\* A transcript is a sequence of lines, each with its length in characters and the
\* number of newline characters that follow it (1, or 2 for a paragraph break; the
\* number after the last line is not used). A chunk is the sequence of the positions,
\* in the list the code iterates over, of the pieces it joins.
max_chunk_size == 1000
max_chunks == 5
LongTranscript == 10000
LineOverlap == 3

FallbackLines == {1, 3, 5, 6, 7, 9, 11}
FallbackLens == {400, 1500}
FallbackTranscripts ==
  {[i \in 1..k |-> [len |-> l, nl |-> s]] : k \in FallbackLines, l \in FallbackLens, s \in {1, 2}}
  \cup {[i \in 1..k |-> [len |-> IF i % 3 = 0 THEN 900 ELSE 250, nl |-> 1 + (i % 2)]] :
          k \in {8, 24}}

RECURSIVE TranscriptLen(_)
\* len(transcript)
TranscriptLen(t) ==
  IF t = <<>> THEN 0
  ELSE IF Len(t) = 1 THEN t[1].len
  ELSE t[1].len + t[1].nl + TranscriptLen(Tail(t))

RECURSIVE SplitNewlines(_)
\* transcript.split('\n'): the lengths of the pieces; a paragraph break leaves an
\* empty piece between two lines
SplitNewlines(t) ==
  IF Len(t) <= 1 THEN [i \in 1..Len(t) |-> t[i].len]
  ELSE <<t[1].len>> \o (IF t[1].nl = 2 THEN <<0>> ELSE <<>>) \o SplitNewlines(Tail(t))

RECURSIVE SplitParas(_, _)
\* transcript.split('\n\n'): the lengths of the paragraphs; cur is the length of the
\* paragraph being read, -1 when none is
SplitParas(t, cur) ==
  IF t = <<>> THEN (IF cur < 0 THEN <<>> ELSE <<cur>>)
  ELSE LET size == IF cur < 0 THEN t[1].len ELSE cur + 1 + t[1].len
       IN  IF Len(t) > 1 /\ t[1].nl = 2 THEN <<size>> \o SplitParas(Tail(t), -1)
           ELSE SplitParas(Tail(t), size)

RECURSIVE SizeOf(_, _)
\* sum(len(line) for line in current_chunk)
SizeOf(chunk, pieces) ==
  IF chunk = <<>> THEN 0 ELSE pieces[Head(chunk)] + SizeOf(Tail(chunk), pieces)

\* s[-m:] of Python for m > 0
LastOf(s, m) == SubSeq(s, (IF Len(s) > m THEN Len(s) - m ELSE 0) + 1, Len(s))

\* s[:m] of Python for m >= 0
FirstOf(s, m) == SubSeq(s, 1, IF Len(s) > m THEN m ELSE Len(s))

\* the cap with the last max_chunks // 2 chunks
LimitContextHalf(chunks) ==
  IF Len(chunks) > max_chunks
    THEN FirstOf(chunks, max_chunks \div 2) \o LastOf(chunks, max_chunks \div 2)
    ELSE chunks

\* qa_system.py lines 571-577: -max_chunks//2 is (-max_chunks)//2, rounded down
LimitContext(chunks) ==
  IF Len(chunks) > max_chunks
    THEN FirstOf(chunks, max_chunks \div 2) \o LastOf(chunks, 0 - ((0 - max_chunks) \div 2))
    ELSE chunks

NoFallback == [pc |-> "idle", transcript |-> <<>>, long |-> FALSE, pieces |-> <<>>, i |-> 0,
               current_chunk |-> <<>>, current_size |-> 0, chunks |-> <<>>, context |-> <<>>]

\* lines 528-540 and 555-558: retrieval returned nothing; the branch and the list
FallbackBegin ==
  /\ lib.pc = "called"
  /\ LET long == TranscriptLen(lib.transcript) > LongTranscript
     IN  lib' = [lib EXCEPT !.pc = "loop", !.long = long, !.i = 1,
                   !.pieces = IF long THEN SplitNewlines(lib.transcript)
                              ELSE SplitParas(lib.transcript, -1)]
  /\ LibUnchanged

\* lines 542-550: one line of a long transcript
FallbackLine ==
  /\ lib.pc = "loop" /\ lib.long /\ lib.i <= Len(lib.pieces)
  /\ LET size == lib.pieces[lib.i]
         full == lib.current_size + size > max_chunk_size /\ lib.current_chunk # <<>>
         kept == IF full THEN LastOf(lib.current_chunk, LineOverlap) ELSE lib.current_chunk
         kept_size == IF full THEN SizeOf(kept, lib.pieces) ELSE lib.current_size
     IN  lib' = [lib EXCEPT !.i = @ + 1,
                   !.chunks = IF full THEN Append(@, lib.current_chunk) ELSE @,
                   !.current_chunk = Append(kept, lib.i),
                   !.current_size = kept_size + size]
  /\ LibUnchanged

\* lines 560-566: one paragraph of a shorter transcript
FallbackParagraph ==
  /\ lib.pc = "loop" /\ ~lib.long /\ lib.i <= Len(lib.pieces)
  /\ LET size == lib.pieces[lib.i]
         full == lib.current_size + size > max_chunk_size /\ lib.current_chunk # <<>>
     IN  lib' = [lib EXCEPT !.i = @ + 1,
                   !.chunks = IF full THEN Append(@, lib.current_chunk) ELSE @,
                   !.current_chunk = Append(IF full THEN <<>> ELSE @, lib.i),
                   !.current_size = (IF full THEN 0 ELSE @) + size + 2]
  /\ LibUnchanged

\* lines 552-553 and 568-569: the chunk left when the list is read
FallbackFlush ==
  /\ lib.pc = "loop" /\ lib.i > Len(lib.pieces)
  /\ lib' = [lib EXCEPT !.pc = "limit",
               !.chunks = IF lib.current_chunk # <<>> THEN Append(@, lib.current_chunk) ELSE @]
  /\ LibUnchanged

\* lines 571-577
FallbackLimit ==
  /\ lib.pc = "limit"
  /\ lib' = [lib EXCEPT !.pc = "context", !.context = LimitContext(lib.chunks)]
  /\ LibUnchanged

InitFallback ==
  /\ InitServer /\ tr = NoTr /\ seg = NoSeg /\ split = NoSplit
  /\ lib \in {[NoFallback EXCEPT !.pc = "called", !.transcript = t] : t \in FallbackTranscripts}

NextFallback ==
  \/ FallbackBegin
  \/ FallbackLine
  \/ FallbackParagraph
  \/ FallbackFlush
  \/ FallbackLimit

SpecFallback == InitFallback /\ [][NextFallback]_vars

\* C38: the fallback context holds at most 5 windows: every window, in order, when
\* there are at most 5, and otherwise the first 2 and the last 3, no window twice.
C38_FallbackWindows ==
  lib.pc = "context" =>
    LET n == Len(lib.chunks)
        context == lib.context
    IN  /\ Len(context) <= 5
        /\ n <= 5 => context = lib.chunks
        /\ n > 5 => context = <<lib.chunks[1], lib.chunks[2],
                                lib.chunks[n - 2], lib.chunks[n - 1], lib.chunks[n]>>
        /\ \A a, b \in 1..Len(context) : a # b => context[a] # context[b]

\* a long transcript cut into more than 5 overlapping windows, capped
C38_Witness ==
  /\ lib.pc = "context" /\ lib.long
  /\ Len(lib.chunks) > 6 /\ Len(lib.context) = 5
  /\ \E a \in 1..Len(lib.chunks) : Len(lib.chunks[a]) > 1

\* a shorter transcript cut by paragraphs into more than 5 windows
C38_WitnessParagraphs ==
  lib.pc = "context" /\ ~lib.long /\ Len(lib.chunks) > 5 /\ Len(lib.context) = 5

\* --------------------------------------- termination of the job: SpecLive
\* Requests for one source in chunked mode and deletions, with the steps of the
\* scheduled jobs taken fairly: the event loop runs every task handed to
\* background_tasks, process_long_video has no unbounded loop of its own, and each
\* of its external calls is taken to return or raise.
LiveStep == \E j \in JobIds : JobStepOver(j, {"T"}, {0, 1300})

NextLive ==
  \/ ProcessChunked("v1", 2400, FALSE, NoneStr, "ok") /\ UNCHANGED <<tr, seg, split, lib>>
  \/ delete_video("v1", "ok")
  \/ LiveStep

SpecLive == Init /\ [][NextLive]_vars /\ WF_vars(LiveStep)

\* the job j has returned and the record of its source reads complete or error
TerminalRecord(j) ==
  /\ jobs[j].pc \in {"done", "error"}
  /\ record[jobs[j].vid].exists
  /\ record[jobs[j].vid].processing_status \in {"complete", "error"}

\* C39: every started chunked job eventually returns with the record of its source
\* in status complete or error.
C39_JobEndsTerminal ==
  \A j \in JobIds : (running = j) ~> TerminalRecord(j)

\* every started job eventually returns
C39_JobReturns ==
  \A j \in JobIds : (running = j) ~> (running # j /\ ~LiveJob(j))

====
